---- MODULE Spec2Model ----
(***************************************************************************)
(* Verification model of the TFCU screenshot annotation pipeline:          *)
(*   - geometry utilities and AnnotationValidator (screenshot_processor.py)*)
(*   - primitive renderers, ScreenshotAnnotator and process_directory      *)
(*   - FigureRegistry                                                      *)
(*   - TextColorParser (scripts/text_color_parser.py)                      *)
(*   - ColorConsistencyValidator (scripts/validate_procedure.py)           *)
(*                                                                         *)
(* Pixel arithmetic is integer arithmetic.  Python floats are modelled by  *)
(* exact rationals (percent_to_pixels, calculate_dynamic_radius) or as     *)
(* IEEE 754 doubles, operation by operation (suggest_adjustment); all      *)
(* integers stay below 2^31.                                               *)
(***************************************************************************)
EXTENDS Integers, Sequences, FiniteSets, TLC

VARIABLES
    \* --- AnnotationValidator instance ---
    width,               \* self.width
    height,              \* self.height
    placed_annotations,  \* self.placed_annotations
    results,             \* the value returned by the last call
    call,                \* the last call made on the validator and its argument
    \* --- FigureRegistry instance ---
    figures,             \* self.figures
    next_number,         \* self._next_number
    color_map,           \* self.color_map
    returned,            \* the figure numbers add_figure returned, in call order
    \* --- AnnotationColorManager instance ---
    assigned,            \* self.assigned
    next_index,          \* self.next_index
    \* --- process_directory ---
    image_files,         \* the images of the input directory, with their annotations
    processed,           \* number of loop iterations completed
    canvas,              \* per processed image, what the renderers drew on it
    status,              \* "running", "done" or "raised" (an exception left the loop)
    \* --- TextColorParser instance ---
    text,                \* the text handed to parse_text
    references,          \* self.references
    by_figure,           \* self.by_figure
    current_figure,      \* self.current_figure
    parsed,              \* parse_text has returned
    \* --- ColorConsistencyValidator._colors_match ---
    expected,            \* argument expected
    actual,              \* argument actual
    matched,             \* the returned value, None before the call
    \* --- validate_procedure.py: validate and ColorConsistencyValidator.validate ---
    document,            \* doc_content, as lines of tokens
    registry_file,       \* the file at registry_path: None, or <<the loaded JSON>>
    procedure,           \* the other inputs of validate()
    color_result,        \* what ColorConsistencyValidator.validate returned and left
    validation,          \* what validate() returned
    \* --- the last call of AnnotationColorManager.assign ---
    assign_call,         \* None, or <<its arguments and the entry it returned>>
    \* --- validate_annotations_preprocess ---
    annotations_file,    \* the loaded annotations.json: image name -> annotation list
    preprocess,          \* what validate_annotations_preprocess returned
    \* --- one call of a geometry utility ---
    geometry_call,       \* None, or the function called and its arguments
    geometry_result,     \* None, or <<what the call returned>>
    \* --- main with --review: guided_review_workflow ---
    review_call,         \* None, or annotations_map, the input directory and stdin
    reviewed,            \* entries of annotations_map the for loop is done with
    lines_read,          \* lines of stdin consumed by input()
    approved,            \* the dict approved, as its items in insertion order
    approve_all,         \* the flag approve_all
    prompted,            \* the image stems input() was called for, in order
    \* --- ReportGenerator.compare_colors next to ColorConsistencyValidator ---
    report_call,         \* None, or the expected colors and the color_map
    report_result        \* None, or <<what the two comparisons left>>

validatorVars == <<width, height, placed_annotations, results, call>>
registryVars == <<figures, next_number, color_map, returned>>
managerVars == <<assigned, next_index>>
directoryVars == <<image_files, processed, canvas, status>>
parserVars == <<text, references, by_figure, current_figure, parsed>>
consistencyVars == <<document, registry_file, procedure, color_result, validation>>
geometryVars == <<geometry_call, geometry_result>>
reviewVars == <<review_call, reviewed, lines_read, approved, approve_all, prompted>>
reportVars == <<report_call, report_result>>
toolVars == <<geometryVars, reviewVars, reportVars>>
callVars == <<assign_call, annotations_file, preprocess, toolVars>>
matchVars == <<expected, actual, matched, consistencyVars, callVars>>

vars == <<validatorVars, registryVars, managerVars, directoryVars,
          parserVars, matchVars>>

(***************************************************************************)
(* Bounds of the model                                                     *)
(***************************************************************************)
MaxAnns == 3      \* longest descriptor list handed to validate_all
MaxPlaced == 2    \* validate_and_adjust is called while fewer records are placed

(***************************************************************************)
(* Generic helpers                                                         *)
(***************************************************************************)
Max(a, b) == IF a >= b THEN a ELSE b
Min(a, b) == IF a <= b THEN a ELSE b
Abs(a) == IF a >= 0 THEN a ELSE -a

\* str.lower() on the strings of the model
Lower(t) ==
    CASE t = "Red" -> "red"
      [] t = "GOLD" -> "gold"
      [] t = "Click" -> "click"
      [] t = "The" -> "the"
      [] t = "Callout" -> "callout"
      [] t = "ARROW" -> "arrow"
      [] t = "Highlight" -> "highlight"
      [] t = "Circle" -> "circle"
      [] t = "LABEL" -> "label"
      [] t = "Figure" -> "figure"
      [] t = "FIGURE" -> "figure"
      [] OTHER -> t

\* Optional values: Python None is the empty tuple, a value v is <<v>>.
None == <<>>
Some(v) == <<v>>

\* Python round() of the rational n/d (d > 0): nearest integer, ties to even.
RoundHalfEven(n, d) ==
    LET q == n \div d
        r == n % d
    IN  IF 2 * r > d \/ (2 * r = d /\ q % 2 = 1) THEN q + 1 ELSE q

\* All sequences over S of length 0..n
SeqsUpTo(S, n) == UNION {[1..k -> S] : k \in 0..n}

(***************************************************************************)
(* Geometry utilities                                                      *)
(***************************************************************************)
\* The conversions compute (percent / 100) * dimension in binary floating
\* point (IEEE double, 53-bit significand) before they round or truncate.
\* For a percentage n/den (den 100, or 200 for a half percent) and a
\* dimension d >= 0 the double differs from n*d/den by less than any
\* fraction that matters, except when n*d/den is exactly a half (round) or
\* exactly an integer (int): there the side on which the double falls is
\* decided by the error of the division, computed below in integers.
RECURSIVE Pow2(_)
Pow2(k) == IF k = 0 THEN 1 ELSE 2 * Pow2(k - 1)

\* The largest e with 2^e <= n/den, searched from e on (n >= 1)
RECURSIVE Log2FloorFrom(_, _, _)
Log2FloorFrom(n, den, e) ==
    IF n >= den
    THEN IF den * Pow2(e + 1) <= n THEN Log2FloorFrom(n, den, e + 1) ELSE e
    ELSE IF n * Pow2(-e) < den THEN Log2FloorFrom(n, den, e - 1) ELSE e

Log2Floor(n, den) == Log2FloorFrom(n, den, 0)

\* 2^s mod m
RECURSIVE Pow2Mod(_, _)
Pow2Mod(s, m) == IF s = 0 THEN 1 % m ELSE (2 * Pow2Mod(s - 1, m)) % m

\* The double n/den has the significand M of 53 bits nearest to n*2^s/den,
\* with s = 52 - Log2Floor(n, den)
SignificandShift(n, den) == 52 - Log2Floor(n, den)

\* den*M - n*2^s for the residue r = n*2^s mod den: the error of the double
\* n/den in units of 1/(den*2^s)
ErrorOfResidue(r, den) == IF 2 * r < den THEN -r ELSE den - r

DivisionError(n, den) ==
    ErrorOfResidue(((n % den) * Pow2Mod(SignificandShift(n, den), den)) % den, den)

\* lhs / den > 2^k
ExceedsPow2(lhs, den, k) ==
    IF k >= 0 THEN lhs > den * Pow2(k) ELSE lhs * Pow2(-k) > den

\* The exponent of the double q + 1/2
HalfExponent(q) == IF q = 0 THEN -1 ELSE Log2Floor(q, 1)

\* round() of the double product when n*d/den = q + 1/2: the product is
\* above the half when the error exceeds half a unit in the last place,
\* below it likewise, and else the half itself, which rounds to even
RoundAtHalf(d, den, q, E, s, e) ==
    IF E > 0 /\ ExceedsPow2(E * d, den, s - 53 + e) THEN q + 1
    ELSE IF E < 0 /\ ExceedsPow2((-E) * d, den, s - 53 + e - (IF q = 0 THEN 1 ELSE 0))
    THEN q
    ELSE IF q % 2 = 1 THEN q + 1 ELSE q

\* round(((n / den)) * d)
RoundPixels(n, den, d) ==
    IF 2 * ((n * d) % den) # den THEN RoundHalfEven(n * d, den)
    ELSE RoundAtHalf(d, den, (n * d) \div den, DivisionError(n, den),
                     SignificandShift(n, den), HalfExponent((n * d) \div den))

\* q is a power of two
RECURSIVE IsPow2(_)
IsPow2(q) == q = 1 \/ (q > 1 /\ q % 2 = 0 /\ IsPow2(q \div 2))

\* int() of the double product when n*d/den = q, an integer >= 1: q - 1
\* when the product falls below q
TruncAtInteger(d, den, q, E, s, e) ==
    IF E < 0 /\ ExceedsPow2((-E) * d, den, s - 53 + e - (IF IsPow2(q) THEN 1 ELSE 0))
    THEN q - 1
    ELSE q

\* int((n / den) * d)
TruncPixels(n, den, d) ==
    IF (n * d) % den # 0 \/ (n * d) \div den = 0 THEN (n * d) \div den
    ELSE TruncAtInteger(d, den, (n * d) \div den, DivisionError(n, den),
                        SignificandShift(n, den), Log2Floor((n * d) \div den, 1))

\* percent_to_pixels that counts pixels from 1
percent_to_pixels_one_based(percent, dimension) == RoundPixels(percent, 100, dimension) + 1

\* screenshot_processor.py of the skill: round((percent / 100) * dimension)
percent_to_pixels(percent, dimension) == RoundPixels(percent, 100, dimension)

\* percent_to_pixels of a percentage given in half-percent units (bbox x + w/2)
percent_to_pixels_half(percent2, dimension) == RoundPixels(percent2, 200, dimension)

\* src/screenshot_processor.py, the copy beside the skill:
\* int((percent / 100) * dimension)
percent_to_pixels_int(percent, dimension) == TruncPixels(percent, 100, dimension)

\* clamp_to_bounds that forgets the margin
clamp_to_bounds_no_margin(x, y, radius, w, h, m) ==
    <<Max(radius, Min(w - radius, x)), Max(radius, Min(h - radius, y))>>

clamp_to_bounds(x, y, radius, w, h, m) ==
    <<Max(radius + m, Min(x, w - radius - m)),
      Max(radius + m, Min(y, h - radius - m))>>

\* calculate_dynamic_radius without the limits
calculate_dynamic_radius_unclamped(image_width) == RoundHalfEven(11 * image_width, 200)

\* max(min_radius, min(max_radius, round(image_width * 0.055)))
calculate_dynamic_radius(image_width) ==
    Max(14, Min(28, RoundHalfEven(11 * image_width, 200)))

(***************************************************************************)
(* Annotation descriptors                                                  *)
(*                                                                         *)
(* A descriptor dict is a record with every key the code reads:            *)
(*   type, position {x,y}, end {x,y}, bbox {x,y,w,h} (percent), radius     *)
(*   (percent of width, circle), text_len (len(ann["text"])), description  *)
(*   ("" when the key is missing), number (0 when the key is missing) and  *)
(*   color ("" when the key is missing).                                   *)
(***************************************************************************)
Pt(x, y) == [x |-> x, y |-> y]
Box(x, y, w, h) == [x |-> x, y |-> y, w |-> w, h |-> h]

Descriptor(t, pos, end, bbox, radius, text_len, description, number, color) ==
    [type |-> t, position |-> pos, end |-> end, bbox |-> bbox, radius |-> radius,
     text_len |-> text_len, description |-> description, number |-> number,
     color |-> color]

Callout(pos, number, description, color) ==
    Descriptor("callout", pos, Pt(50, 50), Box(40, 40, 20, 20), 5, 5, description, number, color)
Arrow(start, end, description, color) ==
    Descriptor("arrow", start, end, Box(40, 40, 20, 20), 5, 5, description, 0, color)
Highlight(bbox, description, color) ==
    Descriptor("highlight", Pt(50, 50), Pt(50, 50), bbox, 5, 5, description, 0, color)
Circle(pos, radius, color) ==
    Descriptor("circle", pos, Pt(50, 50), Box(40, 40, 20, 20), radius, 5, "", 0, color)
Label(pos, text_len, color) ==
    Descriptor("label", pos, Pt(50, 50), Box(40, 40, 20, 20), 5, text_len, "", 0, color)

(***************************************************************************)
(* AnnotationValidator                                                     *)
(***************************************************************************)
\* self.margin (the default of __init__)
margin == 5

\* get_annotation_bounds that gives a callout the default radius
get_annotation_bounds_default_radius(ann, w, h) ==
    <<percent_to_pixels(ann.position.x, w), percent_to_pixels(ann.position.y, h), 18>>

\* (x, y, effective radius) of a descriptor, as <<x, y, radius>>
get_annotation_bounds(ann, w, h) ==
    IF ann.type \in {"callout", "circle"} THEN
        <<percent_to_pixels(ann.position.x, w),
          percent_to_pixels(ann.position.y, h),
          IF ann.type = "callout" THEN calculate_dynamic_radius(w)
                                  ELSE percent_to_pixels(ann.radius, w)>>
    ELSE IF ann.type = "label" THEN
        <<percent_to_pixels(ann.position.x, w),
          percent_to_pixels(ann.position.y, h),
          Max(20, ann.text_len * 4)>>
    ELSE IF ann.type = "highlight" THEN
        <<percent_to_pixels_half(2 * ann.bbox.x + ann.bbox.w, w),
          percent_to_pixels_half(2 * ann.bbox.y + ann.bbox.h, h),
          Max(percent_to_pixels_half(ann.bbox.w, w),
              percent_to_pixels_half(ann.bbox.h, h))>>
    ELSE IF ann.type = "arrow" THEN
        <<percent_to_pixels(ann.end.x, w), percent_to_pixels(ann.end.y, h), 15>>
    ELSE <<w \div 2, h \div 2, 18>>

\* "OK" when the annotation fits, else the first edge it is too close to
check_bounds(x, y, radius, w, h) ==
    IF x - radius < margin THEN "left"
    ELSE IF x + radius > w - margin THEN "right"
    ELSE IF y - radius < margin THEN "top"
    ELSE IF y + radius > h - margin THEN "bottom"
    ELSE "OK"

(***************************************************************************)
(* Binary floating point.  suggest_adjustment computes in Python floats    *)
(* (IEEE 754 doubles, every operation rounded to the nearest value of 53   *)
(* significant bits, ties to the even one).  A float is modelled by its    *)
(* exact value, [neg, m, e] for (-1)^neg * m * 2^e, where the natural      *)
(* number m < 2^53 + 1 is a sequence of limbs of 14 bits, the least        *)
(* significant first and the last one not 0 (<<>> is 0).  The operations   *)
(* compute the exact result in such numbers and round it as the hardware   *)
(* does; exponents stay far from the range where a double overflows or     *)
(* goes subnormal.                                                         *)
(***************************************************************************)
\* Bits of a limb, and the base 2^14 of the limbs
LimbBits == 14
LimbBase == 16384

Limb(n, i) == IF i >= 1 /\ i <= Len(n) THEN n[i] ELSE 0

RECURSIVE Trim(_)
Trim(n) == IF n # <<>> /\ n[Len(n)] = 0 THEN Trim(SubSeq(n, 1, Len(n) - 1)) ELSE n

\* The limbs of the number with the column values cols (least significant
\* first; a column may exceed a limb or be negative), from column i on with
\* the carry c
RECURSIVE Carry(_, _, _)
Carry(cols, i, c) ==
    IF i > Len(cols)
    THEN IF c = 0 THEN <<>> ELSE <<c % LimbBase>> \o Carry(cols, i, c \div LimbBase)
    ELSE <<(cols[i] + c) % LimbBase>> \o Carry(cols, i + 1, (cols[i] + c) \div LimbBase)

BigOfColumns(cols) == Trim(Carry(cols, 1, 0))

\* The number k >= 0
BigOf(k) == BigOfColumns(<<k>>)

\* The integer n < 2^31
BigValue(n) == Limb(n, 1) + LimbBase * Limb(n, 2) + LimbBase * LimbBase * Limb(n, 3)

BigAdd(a, b) == BigOfColumns([i \in 1..Max(Len(a), Len(b)) |-> Limb(a, i) + Limb(b, i)])

\* a - b for a >= b
BigSub(a, b) == BigOfColumns([i \in 1..Len(a) |-> a[i] - Limb(b, i)])

\* a * k for 0 <= k <= 2^16
BigMulSmall(a, k) == BigOfColumns([i \in 1..Len(a) |-> a[i] * k])

\* a * b for a of at most four limbs
BigMul(a, b) ==
    IF a = <<>> \/ b = <<>> THEN <<>>
    ELSE BigOfColumns([i \in 1..(Len(a) + Len(b) - 1) |->
                          Limb(a, 1) * Limb(b, i) + Limb(a, 2) * Limb(b, i - 1)
                          + Limb(a, 3) * Limb(b, i - 2) + Limb(a, 4) * Limb(b, i - 3)])

RECURSIVE BigCmpFrom(_, _, _)
BigCmpFrom(a, b, i) ==
    IF i = 0 THEN 0
    ELSE IF a[i] < b[i] THEN -1
    ELSE IF a[i] > b[i] THEN 1
    ELSE BigCmpFrom(a, b, i - 1)

\* -1, 0 or 1 as a < b, a = b or a > b
BigCmp(a, b) ==
    IF Len(a) < Len(b) THEN -1
    ELSE IF Len(a) > Len(b) THEN 1
    ELSE BigCmpFrom(a, b, Len(a))

\* n * 2^b for b less than the bits of a limb
ShiftLeftBits(n, b) ==
    Trim([i \in 1..(Len(n) + 1) |->
             ((Limb(n, i) * (2 ^ b)) % LimbBase) + (Limb(n, i - 1) \div (2 ^ (LimbBits - b)))])

\* n * 2^k
ShiftLeft(n, k) ==
    IF n = <<>> THEN <<>>
    ELSE [i \in 1..(k \div LimbBits) |-> 0] \o ShiftLeftBits(n, k % LimbBits)

\* floor(n / 2^k), dropping a limbs and b bits
ShiftRightBy(n, a, b) ==
    Trim([i \in 1..Max(Len(n) - a, 0) |->
             (Limb(n, i + a) \div (2 ^ b))
             + (Limb(n, i + a + 1) % (2 ^ b)) * (2 ^ (LimbBits - b))])

ShiftRight(n, k) == ShiftRightBy(n, k \div LimbBits, k % LimbBits)

\* n is a multiple of 2^k
LowBitsZero(n, k) ==
    /\ \A i \in 1..(k \div LimbBits) : Limb(n, i) = 0
    /\ Limb(n, (k \div LimbBits) + 1) % (2 ^ (k % LimbBits)) = 0

BigOdd(n) == Limb(n, 1) % 2 = 1

\* The number of bits of n
BitLen(n) ==
    IF n = <<>> THEN 0
    ELSE LimbBits * (Len(n) - 1)
         + (CHOOSE k \in 1..LimbBits : 2 ^ (k - 1) <= n[Len(n)] /\ n[Len(n)] < 2 ^ k)

\* The largest digit <= est with d * digit <= r, together with that product:
\* for r < d * 2^14 and d with its top bit in the top bit of a limb, the
\* estimate from the leading limbs is at most two too large
RECURSIVE QuotientLimb(_, _, _, _)
QuotientLimb(r, d, est, product) ==
    IF BigCmp(product, r) > 0
    THEN QuotientLimb(r, d, est - 1, BigMulSmall(d, est - 1))
    ELSE [digit |-> est, product |-> product]

QuotientEstimate(r, d) ==
    Min(LimbBase - 1,
        (Limb(r, Len(d) + 1) * LimbBase + Limb(r, Len(d))) \div d[Len(d)])

\* One step of the long division by d: acc is the quotient and the
\* remainder of the limbs above, r the remainder with the next limb brought
\* down
DivTake(acc, r, taken) ==
    [quotient |-> <<taken.digit>> \o acc.quotient, rem |-> BigSub(r, taken.product)]

DivEstimated(d, acc, r, est) == DivTake(acc, r, QuotientLimb(r, d, est, BigMulSmall(d, est)))

DivDigit(d, acc, r) == DivEstimated(d, acc, r, QuotientEstimate(r, d))

\* The long division of the limbs i, i - 1, .. 1 of n by d
RECURSIVE DivFrom(_, _, _, _)
DivFrom(n, d, i, acc) ==
    IF i = 0 THEN acc
    ELSE IF acc.rem = <<>> /\ n[i] = 0
    THEN DivFrom(n, d, i - 1, [quotient |-> <<0>> \o acc.quotient, rem |-> <<>>])
    ELSE DivFrom(n, d, i - 1, DivDigit(d, acc, <<n[i]>> \o acc.rem))

DivResult(division) ==
    [quotient |-> Trim(division.quotient), exact |-> division.rem = <<>>]

\* floor(n / d) and whether d divides n, for d # 0 with its top bit in the
\* top bit of a limb: the limbs of n above the length of d are below d
BigDivShifted(n, d) ==
    IF Len(n) < Len(d) THEN [quotient |-> <<>>, exact |-> n = <<>>]
    ELSE DivResult(DivFrom(n, d, Len(n) - Len(d) + 1,
                           [quotient |-> <<>>,
                            rem |-> SubSeq(n, Len(n) - Len(d) + 2, Len(n))]))

BigDiv(n, d) ==
    BigDivShifted(ShiftLeft(n, LimbBits * Len(d) - BitLen(d)),
                  ShiftLeft(d, LimbBits * Len(d) - BitLen(d)))

\* floor(sqrt(n)) for 0 < n < 2^31, by Newton's iteration from x >= sqrt(n)
RECURSIVE IntSqrtFrom(_, _)
IntSqrtFrom(n, x) ==
    IF n \div x >= x THEN x ELSE IntSqrtFrom(n, (x + n \div x) \div 2)

\* The largest root <= x with root * root <= n, and whether it is sqrt(n)
RECURSIVE BigSqrtDown(_, _, _)
BigSqrtDown(n, x, square) ==
    IF BigCmp(square, n) > 0
    THEN BigSqrtDown(n, BigSub(x, <<1>>), BigMul(BigSub(x, <<1>>), BigSub(x, <<1>>)))
    ELSE [root |-> x, exact |-> BigCmp(square, n) = 0]

\* floor(sqrt(n)) from x >= floor(sqrt(n)), x > 0: Newton's iteration keeps
\* x there and doubles its correct bits, and the last steps are taken down
RECURSIVE BigSqrtFrom(_, _, _)
BigSqrtNext(n, x, steps, q) ==
    IF BigCmp(q, x) >= 0 THEN BigSqrtDown(n, x, BigMul(x, x))
    ELSE BigSqrtFrom(n, ShiftRight(BigAdd(x, q), 1), steps - 1)

BigSqrtFrom(n, x, steps) ==
    IF steps = 0 \/ x = <<>> THEN BigSqrtDown(n, x, BigMul(x, x))
    ELSE BigSqrtNext(n, x, steps, BigDiv(n, x).quotient)

Float(neg, m, e) == [neg |-> neg, m |-> m, e |-> e]

\* m * 2^e cut after k bits of m, rounded to nearest, ties to even; sticky
\* says that the exact value is a little more than m * 2^e
RoundAt(neg, m, e, k, sticky, q) ==
    Float(neg,
          IF BigOdd(ShiftRight(m, k - 1))
             /\ (sticky \/ BigOdd(q) \/ ~LowBitsZero(m, k - 1))
          THEN BigAdd(q, <<1>>) ELSE q,
          e + k)

\* The double nearest to (-1)^neg * m * 2^e
Round53(neg, m, e, sticky) ==
    IF BitLen(m) <= 53 THEN Float(neg, m, IF m = <<>> THEN 0 ELSE e)
    ELSE RoundAt(neg, m, e, BitLen(m) - 53, sticky, ShiftRight(m, BitLen(m) - 53))

\* float(i) for an int |i| < 2^31
FloatOf(i) == Float(i < 0, BigOf(Abs(i)), 0)

\* a + b on the magnitudes ma, mb at the same exponent e
FloatAddAligned(a, b, ma, mb, e) ==
    IF a.neg = b.neg THEN Round53(a.neg, BigAdd(ma, mb), e, FALSE)
    ELSE IF BigCmp(ma, mb) = 0 THEN Float(FALSE, <<>>, 0)
    ELSE IF BigCmp(ma, mb) > 0 THEN Round53(a.neg, BigSub(ma, mb), e, FALSE)
    ELSE Round53(b.neg, BigSub(mb, ma), e, FALSE)

\* a + b
FloatAdd(a, b) ==
    IF a.m = <<>> THEN b
    ELSE IF b.m = <<>> THEN a
    ELSE FloatAddAligned(a, b, ShiftLeft(a.m, a.e - Min(a.e, b.e)),
                         ShiftLeft(b.m, b.e - Min(a.e, b.e)), Min(a.e, b.e))

\* a - b
FloatSub(a, b) == FloatAdd(a, Float(~b.neg, b.m, b.e))

\* a * b
FloatMul(a, b) ==
    IF a.m = <<>> \/ b.m = <<>> THEN Float(FALSE, <<>>, 0)
    ELSE Round53(a.neg # b.neg, BigMul(a.m, b.m), a.e + b.e, FALSE)

\* a / b for b # 0: the quotient of a.m * 2^k by b.m has 55 or 56 bits
FloatDivBy(a, b, k, d) ==
    Round53(a.neg # b.neg, d.quotient, a.e - k - b.e, ~d.exact)

FloatDivAt(a, b, k) == FloatDivBy(a, b, k, BigDiv(ShiftLeft(a.m, k), b.m))

FloatDiv(a, b) ==
    IF b.m # <<>> /\ a.m = <<>> THEN Float(FALSE, <<>>, 0)
    ELSE FloatDivAt(a, b, BitLen(b.m) + 55 - BitLen(a.m))

\* math.sqrt(s) for an int 0 < s < 2^31: the root of s * 4^j has 55 bits
FloatSqrtOf(j, r) == Round53(FALSE, r.root, -j, ~r.exact)

\* The largest t with s * 4^t < 2^31 gives 15 bits to start from, which two
\* steps of the iteration make 60
FloatSqrtAt(s, j, t) ==
    FloatSqrtOf(j, BigSqrtFrom(ShiftLeft(BigOf(s), 2 * j),
                               ShiftLeft(BigOf(IntSqrtFrom(s * (4 ^ t), 46340) + 1), j - t),
                               2))

FloatSqrt(s) ==
    FloatSqrtAt(s, (110 - BitLen(BigOf(s))) \div 2, (31 - BitLen(BigOf(s))) \div 2)

\* a > 0
FloatPositive(a) == a.m # <<>> /\ ~a.neg

\* round(a) for a float |a| < 2^31: to the nearest int, ties to even
FloatRoundAt(a, k, q) ==
    (IF a.neg THEN -1 ELSE 1)
    * BigValue(IF BigOdd(ShiftRight(a.m, k - 1))
                  /\ (BigOdd(q) \/ ~LowBitsZero(a.m, k - 1))
               THEN BigAdd(q, <<1>>) ELSE q)

FloatRound(a) ==
    IF a.e >= 0 THEN (IF a.neg THEN -1 ELSE 1) * BigValue(ShiftLeft(a.m, a.e))
    ELSE FloatRoundAt(a, -a.e, ShiftRight(a.m, -a.e))

(***************************************************************************)
(* check_collision and suggest_adjustment                                  *)
(***************************************************************************)
\* math.sqrt(vx * vx + vy * vy)
Distance(vx, vy) ==
    IF vx = 0 /\ vy = 0 THEN FloatOf(0) ELSE FloatSqrt(vx * vx + vy * vy)

\* distance < radius + pr + min_gap.  min_distance is an int and math.sqrt
\* rounds a root below it to a float below it, so that the comparison is the
\* one of the squares
Collides(x, y, radius, p, min_gap) ==
    (x - p.x) * (x - p.x) + (y - p.y) * (y - p.y)
        < (radius + p.radius + min_gap) * (radius + p.radius + min_gap)

\* The dict that check_collision appends for the placed record p
Collision(p, distance, min_distance) ==
    [placed |-> p, distance |-> distance, required |-> min_distance,
     overlap |-> FloatSub(FloatOf(min_distance), distance)]

CollisionWith(x, y, radius, p, min_gap) ==
    Collision(p, Distance(x - p.x, y - p.y), radius + p.radius + min_gap)

\* check_collision that looks at the most recently placed record only
check_collision_last_only(placed, x, y, radius) ==
    IF placed # <<>> /\ Collides(x, y, radius, placed[Len(placed)], 5)
    THEN <<CollisionWith(x, y, radius, placed[Len(placed)], 5)>>
    ELSE <<>>

\* The loop of check_collision over the first k placed records
RECURSIVE CollisionsTo(_, _, _, _, _)
CollisionsTo(placed, x, y, radius, k) ==
    IF k = 0 THEN <<>>
    ELSE IF Collides(x, y, radius, placed[k], 5)
    THEN Append(CollisionsTo(placed, x, y, radius, k - 1),
                CollisionWith(x, y, radius, placed[k], 5))
    ELSE CollisionsTo(placed, x, y, radius, k - 1)

\* The collisions with the placed records, in placement order
check_collision(placed, x, y, radius) == CollisionsTo(placed, x, y, radius, Len(placed))

\* (v / dist) * (overlap + 5)
AxisPush(v, dist, overlap) ==
    FloatMul(FloatDiv(FloatOf(v), dist), FloatAdd(overlap, FloatOf(5)))

\* What one collision adds to dx and dy, vx and vy being the center
\* difference and dist its length
PushFrom(vx, vy, dist, overlap) ==
    IF FloatPositive(dist)
    THEN [dx |-> AxisPush(vx, dist, overlap), dy |-> AxisPush(vy, dist, overlap)]
    ELSE [dx |-> FloatAdd(overlap, FloatOf(5)), dy |-> FloatAdd(overlap, FloatOf(5))]

\* CollisionPush without the fallback for coinciding centers
CollisionPush_no_fallback(x, y, col) ==
    IF FloatPositive(Distance(x - col.placed.x, y - col.placed.y))
    THEN PushFrom(x - col.placed.x, y - col.placed.y,
                  Distance(x - col.placed.x, y - col.placed.y), col.overlap)
    ELSE [dx |-> FloatOf(0), dy |-> FloatOf(0)]

\* The displacement [dx, dy] that the collision col adds
CollisionPush(x, y, col) ==
    PushFrom(x - col.placed.x, y - col.placed.y,
             Distance(x - col.placed.x, y - col.placed.y), col.overlap)

\* dx += one.dx, dy += one.dy
AddPush(d, one) == [dx |-> FloatAdd(d.dx, one.dx), dy |-> FloatAdd(d.dy, one.dy)]

\* dx, dy after the loop over the first k collisions, from 0.0, 0.0
RECURSIVE SumPushTo(_, _, _, _)
SumPushTo(x, y, collisions, k) ==
    IF k = 0 THEN [dx |-> FloatOf(0), dy |-> FloatOf(0)]
    ELSE AddPush(SumPushTo(x, y, collisions, k - 1), CollisionPush(x, y, collisions[k]))

SumPush(x, y, collisions) == SumPushTo(x, y, collisions, Len(collisions))

\* round(x + dx), round(y + dy), clamped
Displaced(x, y, radius, d, w, h) ==
    clamp_to_bounds(FloatRound(FloatAdd(FloatOf(x), d.dx)),
                    FloatRound(FloatAdd(FloatOf(y), d.dy)), radius, w, h, margin)

suggest_adjustment(x, y, radius, collisions, w, h) ==
    IF collisions = <<>> THEN <<x, y>>
    ELSE Displaced(x, y, radius, SumPush(x, y, collisions), w, h)

Position(x, y, radius) == [x |-> x, y |-> y, radius |-> radius]

\* x, y = pair: the components of a returned pair, by the sequence operators
\* (they evaluate the pair once)
PairX(pair) == Head(pair)
PairY(pair) == Head(Tail(pair))

Warning(kind, edge, count) == [kind |-> kind, edge |-> edge, count |-> count]

\* The end of validate_and_adjust that returns on the missing description,
\* before the annotation is registered as placed
RegisterPlaced_rejecting(placed, ann, b, edge, collisions, a) ==
    LET missing == ann.description = "" /\ ann.type \in {"callout", "arrow", "highlight"}
        adjusted == edge # "OK" \/ collisions # <<>>
    IN  IF missing
        THEN [result |->
                 [valid |-> FALSE, adjusted |-> FALSE,
                  original_position |-> Position(b[1], b[2], b[3]),
                  adjusted_position |-> None, warnings |-> <<>>,
                  errors |-> <<ann.type>>],
              placed |-> placed]
        ELSE [result |->
                 [valid |-> TRUE, adjusted |-> adjusted,
                  original_position |-> Position(b[1], b[2], b[3]),
                  adjusted_position |->
                     IF adjusted THEN Some(Position(PairX(a), PairY(a), b[3])) ELSE None,
                  warnings |->
                     (IF edge = "OK" THEN <<>> ELSE <<Warning("bounds", edge, 0)>>)
                     \o (IF collisions = <<>> THEN <<>>
                         ELSE <<Warning("collision", "", Len(collisions))>>),
                  errors |-> <<>>],
              placed |->
                 Append(placed, [x |-> PairX(a), y |-> PairY(a), radius |-> b[3],
                                 type |-> ann.type, number |-> ann.number])]

\* The end of validate_and_adjust: the result dict and the placed list with
\* the record appended.  b is <<x, y, radius>> of get_annotation_bounds, edge
\* the answer of check_bounds, collisions the colliding records and a the
\* final <<x, y>>.
RegisterPlaced(placed, ann, b, edge, collisions, a) ==
    LET missing == ann.description = "" /\ ann.type \in {"callout", "arrow", "highlight"}
        adjusted == edge # "OK" \/ collisions # <<>>
    IN  [result |->
            [valid |-> ~missing,
             adjusted |-> adjusted,
             original_position |-> Position(b[1], b[2], b[3]),
             adjusted_position |->
                IF adjusted THEN Some(Position(PairX(a), PairY(a), b[3])) ELSE None,
             warnings |->
                (IF edge = "OK" THEN <<>> ELSE <<Warning("bounds", edge, 0)>>)
                \o (IF collisions = <<>> THEN <<>>
                    ELSE <<Warning("collision", "", Len(collisions))>>),
             errors |-> IF missing THEN <<ann.type>> ELSE <<>>],
         placed |->
            Append(placed, [x |-> PairX(a), y |-> PairY(a), radius |-> b[3],
                            type |-> ann.type, number |-> ann.number])]

\* "Check collisions" that adjusts the adjusted position a second time when
\* it still collides
CheckCollisionsStep_rechecking(placed, ann, w, h, b, edge, c, collisions) ==
    LET a == suggest_adjustment(c[1], c[2], b[3], collisions, w, h)
    IN  RegisterPlaced(placed, ann, b, edge, collisions,
                       IF collisions = <<>> THEN c
                       ELSE suggest_adjustment(PairX(a), PairY(a), b[3],
                                               check_collision(placed, PairX(a), PairY(a),
                                                               b[3]),
                                               w, h))

\* "Check collisions": c is <<x, y>> after the bounds check
CheckCollisionsStep(placed, ann, w, h, b, edge, c, collisions) ==
    RegisterPlaced(placed, ann, b, edge, collisions,
                   IF collisions # <<>>
                   THEN suggest_adjustment(c[1], c[2], b[3], collisions, w, h)
                   ELSE c)

\* "Check bounds": clamp when check_bounds names an edge
CheckBoundsStep(placed, ann, w, h, b) ==
    LET edge == check_bounds(b[1], b[2], b[3], w, h)
        c == IF edge = "OK" THEN <<b[1], b[2]>>
             ELSE clamp_to_bounds(b[1], b[2], b[3], w, h, margin)
    IN  CheckCollisionsStep(placed, ann, w, h, b, edge, c,
                            check_collision(placed, c[1], c[2], b[3]))

\* validate_and_adjust(ann) on a validator whose placed list is `placed`:
\* the returned result dict and the placed list afterwards
validate_and_adjust(placed, ann, w, h) ==
    CheckBoundsStep(placed, ann, w, h, get_annotation_bounds(ann, w, h))

\* The fold of validate_all: state after descriptors 1..k of annotations,
\* starting from the placed list `placed`
RECURSIVE ValidateFold(_, _, _, _, _)
ValidateFold(placed, annotations, k, w, h) ==
    IF k = 0 THEN [annotations |-> <<>>, placed |-> placed]
    ELSE LET before == ValidateFold(placed, annotations, k - 1, w, h)
             step == validate_and_adjust(before.placed, annotations[k], w, h)
         IN  [annotations |->
                 Append(before.annotations,
                        [result |-> step.result, index |-> k - 1,
                         annotation |-> annotations[k]]),
              placed |-> step.placed]

\* validate_all without the reset of placed_annotations
validate_all_no_reset(placed, annotations, w, h) ==
    LET f == ValidateFold(placed, annotations, Len(annotations), w, h)
    IN  [results |->
            [annotations |-> f.annotations,
             total |-> Len(annotations),
             valid |-> Len(SelectSeq(f.annotations, LAMBDA r : r.result.valid)),
             adjusted |-> Len(SelectSeq(f.annotations, LAMBDA r : r.result.adjusted)),
             errors |-> Len(SelectSeq(f.annotations, LAMBDA r : ~r.result.valid)),
             all_valid |-> \A i \in 1..Len(f.annotations) : f.annotations[i].result.valid],
         placed |-> f.placed]

\* validate_all(annotations): the returned dict and the placed list afterwards
validate_all(placed, annotations, w, h) ==
    LET f == ValidateFold(<<>>, annotations, Len(annotations), w, h)
    IN  [results |->
            [annotations |-> f.annotations,
             total |-> Len(annotations),
             valid |-> Len(SelectSeq(f.annotations, LAMBDA r : r.result.valid)),
             adjusted |-> Len(SelectSeq(f.annotations, LAMBDA r : r.result.adjusted)),
             errors |-> Len(SelectSeq(f.annotations, LAMBDA r : ~r.result.valid)),
             all_valid |-> \A i \in 1..Len(f.annotations) : f.annotations[i].result.valid],
         placed |-> f.placed]

(***************************************************************************)
(* Colors.  Color strings are the strings of ColorStrings; lower() and     *)
(* strip() are given on them by the table LowerStrip.                      *)
(***************************************************************************)
\* FigureRegistry.COLOR_PALETTE, in dict order, as <<name, hex>>
COLOR_PALETTE ==
    << <<"red", "#C00000">>, <<"critical", "#C00000">>, <<"blue", "#2E74B5">>,
       <<"info", "#2E74B5">>, <<"gold", "#FFC000">>, <<"warning", "#FFC000">>,
       <<"yellow", "#FFC000">>, <<"green", "#548235">>, <<"success", "#548235">>,
       <<"teal", "#154747">>, <<"primary", "#154747">>, <<"purple", "#7030A0">>,
       <<"orange", "#ED7D31">> >>

PaletteNames == {COLOR_PALETTE[i][1] : i \in 1..Len(COLOR_PALETTE)}
PaletteHex(name) ==
    LET i == CHOOSE k \in 1..Len(COLOR_PALETTE) : COLOR_PALETTE[k][1] = name
    IN  COLOR_PALETTE[i][2]

\* TFCU_COLORS (the entries the renderers use)
TFCU_COLORS ==
    [primary |-> "#154747", critical |-> "#C00000", warning |-> "#FFC000",
     info |-> "#2E74B5", success |-> "#548235", white |-> "#FFFFFF"]

\* str.lower().strip() on the color strings of the model
LowerStrip(c) ==
    CASE c = "#C00000" -> "#c00000"
      [] c = "#2E74B5" -> "#2e74b5"
      [] c = "#FFC000" -> "#ffc000"
      [] c = "#7030A0" -> "#7030a0"
      [] c = "#ED7D31" -> "#ed7d31"
      [] c = "#FFFFFF" -> "#ffffff"
      [] c = "#FF00FF" -> "#ff00ff"
      [] c = "Red" -> "red"
      [] c = "GOLD" -> "gold"
      [] c = " blue " -> "blue"
      [] c = "Warning" -> "warning"
      [] c = "Y" -> "y"
      [] c = " N" -> "n"
      [] OTHER -> c

\* Strings hex_to_rgb converts: '#' and six hex digits.  On any other string
\* of the model int(.., 16) raises ValueError.
HexStrings ==
    {"#C00000", "#2E74B5", "#FFC000", "#548235", "#154747", "#7030A0", "#ED7D31",
     "#FFFFFF", "#FF00FF", "#c00000", "#2e74b5", "#ffc000", "#7030a0", "#ed7d31",
     "#ffffff", "#ff00ff"}

hex_to_rgb_raises(hex_color) == hex_color \notin HexStrings

(***************************************************************************)
(* FigureRegistry                                                          *)
(***************************************************************************)
\* The empty dict
EmptyDict == [k \in {} |-> {}]

\* d[key] = value on a dict d
DictSet(d, key, value) ==
    [k \in DOMAIN d \cup {key} |-> IF k = key THEN value ELSE d[k]]

\* First palette name whose hex, lowered, equals color_lower; "" when none
RECURSIVE PaletteNameOfHex(_, _)
PaletteNameOfHex(color_lower, i) ==
    IF i > Len(COLOR_PALETTE) THEN ""
    ELSE IF LowerStrip(COLOR_PALETTE[i][2]) = color_lower THEN COLOR_PALETTE[i][1]
    ELSE PaletteNameOfHex(color_lower, i + 1)

StartsWithHash(c) == c \in HexStrings \/ c \in {"#12", "#zzzzzz"}

\* FigureRegistry._normalize_color; the missing color is ""
normalize_color(color) ==
    IF color = "" THEN "teal"
    ELSE LET color_lower == LowerStrip(color)
         IN  IF StartsWithHash(color_lower)
             THEN IF PaletteNameOfHex(color_lower, 1) # ""
                  THEN PaletteNameOfHex(color_lower, 1)
                  ELSE color_lower
             ELSE IF color_lower \in PaletteNames THEN color_lower ELSE "teal"

\* annotation_colors of add_figure: number -> {color_name, hex, type}, over
\* the annotations that carry a number; a later annotation overwrites
RECURSIVE AnnotationColors(_, _)
AnnotationColors(annotations, k) ==
    IF k = 0 THEN EmptyDict
    ELSE LET before == AnnotationColors(annotations, k - 1)
             ann == annotations[k]
             color == IF ann.color = "" THEN "teal" ELSE ann.color
             color_name == normalize_color(color)
         IN  IF ann.number # 0
             THEN DictSet(before, ann.number,
                          [color_name |-> color_name,
                           hex |-> IF color_name \in PaletteNames
                                   THEN PaletteHex(color_name) ELSE color,
                           type |-> ann.type])
             ELSE before

\* add_figure on a registry [figures, next_number, color_map], called with the
\* number n read on line 1194: the registry after lines 1197-1271.  The
\* title, description, section and callouts_for_text texts are not modelled.
RegisterFigure(reg, n, source, annotations, legend_items) ==
    LET annotation_colors == AnnotationColors(annotations, Len(annotations))
    IN  [figures |->
            Append(reg.figures,
                   [figure_number |-> n, source_image |-> source,
                    annotations |-> annotations, legend |-> legend_items,
                    color_map |-> annotation_colors]),
         next_number |-> reg.next_number,
         color_map |->
            IF annotation_colors # EmptyDict
            THEN DictSet(reg.color_map, n, annotation_colors)
            ELSE reg.color_map]

\* add_figure whose first increment of the counter is lost, as when two calls
\* read the counter before either stores the sum
add_figure_lost_update(reg, source, annotations, legend_items) ==
    [registry |->
        RegisterFigure([reg EXCEPT !.next_number =
                           IF reg.next_number = 1 /\ reg.figures = <<>>
                           THEN 1 ELSE reg.next_number + 1],
                       reg.next_number, source, annotations, legend_items),
     figure_num |-> reg.next_number]

\* add_figure that leaves the counter as it is
add_figure_no_increment(reg, source, annotations, legend_items) ==
    [registry |-> RegisterFigure(reg, reg.next_number, source, annotations, legend_items),
     figure_num |-> reg.next_number]

\* add_figure as one call: the registry afterwards and the returned number
add_figure(reg, source, annotations, legend_items) ==
    LET n == reg.next_number
        counted == [reg EXCEPT !.next_number = reg.next_number + 1]
    IN  [registry |-> RegisterFigure(counted, n, source, annotations, legend_items),
         figure_num |-> n]

\* to_json that exports the color map of figure 1 only
to_json_first_figure_only(reg) ==
    [figures |-> reg.figures, total_count |-> Len(reg.figures),
     color_map |-> [k \in DOMAIN reg.color_map \cap {1} |-> reg.color_map[k]],
     color_palette |-> COLOR_PALETTE]

\* FigureRegistry.to_json()
to_json(reg) ==
    [figures |-> reg.figures, total_count |-> Len(reg.figures),
     color_map |-> reg.color_map, color_palette |-> COLOR_PALETTE]

Registry == [figures |-> figures, next_number |-> next_number, color_map |-> color_map]

\* json.dump of a dict with int keys followed by json.load: every key comes
\* back as its decimal string
json_keys(d) ==
    [s \in {ToString(k) : k \in DOMAIN d} |-> d[CHOOSE k \in DOMAIN d : ToString(k) = s]]

\* The same for the two levels of a color_map
json_color_map(cm) == [s \in DOMAIN json_keys(cm) |-> json_keys(json_keys(cm)[s])]

\* json.load of the file that FigureRegistry.save wrote for the export data
json_load_dump(data) ==
    [figures |-> [i \in 1..Len(data.figures) |->
                     [data.figures[i] EXCEPT !.color_map = json_keys(@)]],
     total_count |-> data.total_count,
     color_map |-> Some(json_color_map(data.color_map)),
     color_palette |-> data.color_palette]

(***************************************************************************)
(* AnnotationColorManager                                                  *)
(***************************************************************************)
\* AnnotationColorManager.PALETTE as <<name, hex>>
PALETTE ==
    << <<"critical", "#C00000">>, <<"info", "#2E74B5">>, <<"warning", "#FFC000">>,
       <<"success", "#548235">>, <<"primary", "#154747">>, <<"purple", "#7030A0">>,
       <<"orange", "#ED7D31">> >>

\* assign that allocates again for an identifier it already knows
assign_overwriting(mgr, element_id, suggested_color, description_text) ==
    LET hits == {i \in 1..Len(PALETTE) : PALETTE[i][1] = suggested_color}
        found == suggested_color # "" /\ hits # {}
        base == IF found THEN PALETTE[CHOOSE i \in hits : \A j \in hits : i <= j]
                ELSE PALETTE[(mgr.next_index % Len(PALETTE)) + 1]
        entry == [name |-> base[1], hex |-> base[2],
                  text |-> description_text, element_id |-> element_id]
    IN  [manager |->
            [assigned |-> DictSet(mgr.assigned, element_id, entry),
             next_index |-> IF found THEN mgr.next_index ELSE mgr.next_index + 1],
         entry |-> entry]

\* assign(element_id, suggested_color, description_text) on a manager
\* [assigned, next_index]: the manager afterwards and the returned entry
assign(mgr, element_id, suggested_color, description_text) ==
    IF element_id \in DOMAIN mgr.assigned
    THEN [manager |-> mgr, entry |-> mgr.assigned[element_id]]
    ELSE LET hits == {i \in 1..Len(PALETTE) : PALETTE[i][1] = suggested_color}
             found == suggested_color # "" /\ hits # {}
             base == IF found THEN PALETTE[CHOOSE i \in hits : \A j \in hits : i <= j]
                     ELSE PALETTE[(mgr.next_index % Len(PALETTE)) + 1]
             entry == [name |-> base[1], hex |-> base[2],
                       text |-> description_text, element_id |-> element_id]
         IN  [manager |->
                 [assigned |-> DictSet(mgr.assigned, element_id, entry),
                  next_index |-> IF found THEN mgr.next_index ELSE mgr.next_index + 1],
              entry |-> entry]

(***************************************************************************)
(* Primitive renderers and ScreenshotAnnotator.process_image               *)
(*                                                                         *)
(* A drawing is the record of one shape put on the canvas: the annotation  *)
(* index it comes from, its pixel geometry and its color.                  *)
(***************************************************************************)
Drawing(index, t, x, y, x2, y2, radius, color) ==
    [index |-> index, type |-> t, x |-> x, y |-> y, x2 |-> x2, y2 |-> y2,
     radius |-> radius, color |-> color]

OrDefault(color, default) == IF color = "" THEN default ELSE color

\* draw_callout that does not clamp the position it converts
draw_callout_unclamped(index, ann, w, h, adjusted_position) ==
    LET c == IF adjusted_position # None
             THEN <<adjusted_position[1].x, adjusted_position[1].y>>
             ELSE <<percent_to_pixels(ann.position.x, w),
                    percent_to_pixels(ann.position.y, h)>>
    IN  <<Drawing(index, "callout", c[1], c[2], c[1], c[2], calculate_dynamic_radius(w),
                  OrDefault(ann.color, TFCU_COLORS.critical))>>

\* draw_callout: center and radius of the circle.  adjusted_position is None
\* or <<a dict with the pixels x and y>>; the pixels of a dict that is
\* supplied are drawn as they are, a position in percent is converted and
\* clamped (default margin 5)
draw_callout(index, ann, w, h, adjusted_position) ==
    LET radius == calculate_dynamic_radius(w)
        c == IF adjusted_position # None
             THEN <<adjusted_position[1].x, adjusted_position[1].y>>
             ELSE clamp_to_bounds(percent_to_pixels(ann.position.x, w),
                                  percent_to_pixels(ann.position.y, h), radius, w, h, 5)
    IN  <<Drawing(index, "callout", c[1], c[2], c[1], c[2], radius,
                  OrDefault(ann.color, TFCU_COLORS.critical))>>

\* draw_arrow (curved, the default of process_image): start and end pixel;
\* _draw_curved_arrow returns without drawing when start and end coincide
draw_arrow(index, ann, w, h) ==
    LET x1 == percent_to_pixels(ann.position.x, w)
        y1 == percent_to_pixels(ann.position.y, h)
        x2 == percent_to_pixels(ann.end.x, w)
        y2 == percent_to_pixels(ann.end.y, h)
    IN  IF x1 = x2 /\ y1 = y2 THEN <<>>
        ELSE <<Drawing(index, "arrow", x1, y1, x2, y2, 0,
                       OrDefault(ann.color, TFCU_COLORS.primary))>>

\* draw_highlight: the rectangle (x, y) - (x + w, y + h)
draw_highlight(index, ann, w, h) ==
    LET x == percent_to_pixels(ann.bbox.x, w)
        y == percent_to_pixels(ann.bbox.y, h)
    IN  <<Drawing(index, "highlight", x, y,
                  x + percent_to_pixels(ann.bbox.w, w),
                  y + percent_to_pixels(ann.bbox.h, h), 0,
                  OrDefault(ann.color, TFCU_COLORS.warning))>>

\* draw_circle: center and radius of the ring
draw_circle(index, ann, w, h) ==
    LET x == percent_to_pixels(ann.position.x, w)
        y == percent_to_pixels(ann.position.y, h)
    IN  <<Drawing(index, "circle", x, y, x, y, percent_to_pixels(ann.radius, w),
                  OrDefault(ann.color, TFCU_COLORS.critical))>>

\* draw_label: the text origin (the background uses bg_color or primary)
draw_label(index, ann, w, h) ==
    LET x == percent_to_pixels(ann.position.x, w)
        y == percent_to_pixels(ann.position.y, h)
    IN  <<Drawing(index, "label", x, y, x, y, 0,
                  OrDefault(ann.color, TFCU_COLORS.white))>>

\* ann_type of process_image: annotation.get("type", "").lower()
RenderType(ann) == Lower(ann.type)

\* The color string a renderer hands to hex_to_rgb for this annotation
RenderColor(ann) ==
    OrDefault(ann.color,
              CASE RenderType(ann) = "callout" -> TFCU_COLORS.critical
                [] RenderType(ann) = "arrow" -> TFCU_COLORS.primary
                [] RenderType(ann) = "highlight" -> TFCU_COLORS.warning
                [] RenderType(ann) = "circle" -> TFCU_COLORS.critical
                [] OTHER -> TFCU_COLORS.white)

Renders(ann) == RenderType(ann) \in {"callout", "arrow", "highlight", "circle", "label"}

\* process_image on annotations 1..k: what was drawn, and whether a renderer
\* raised (hex_to_rgb on a string that is no hex color); nothing is drawn
\* after the exception
RECURSIVE process_image(_, _, _, _)
process_image(annotations, k, w, h) ==
    IF k = 0 THEN [drawn |-> <<>>, raised |-> FALSE]
    ELSE LET before == process_image(annotations, k - 1, w, h)
             ann == annotations[k]
         IN  IF before.raised \/ ~Renders(ann) THEN before
             ELSE IF hex_to_rgb_raises(RenderColor(ann))
                  THEN [drawn |-> before.drawn, raised |-> TRUE]
             ELSE [drawn |-> before.drawn \o
                        (CASE RenderType(ann) = "callout" -> draw_callout(k, ann, w, h, None)
                           [] RenderType(ann) = "arrow" -> draw_arrow(k, ann, w, h)
                           [] RenderType(ann) = "highlight" -> draw_highlight(k, ann, w, h)
                           [] RenderType(ann) = "circle" -> draw_circle(k, ann, w, h)
                           [] OTHER -> draw_label(k, ann, w, h)),
                   raised |-> FALSE]

(***************************************************************************)
(* process_directory                                                       *)
(***************************************************************************)
\* The placeholder annotation of an image without annotations
Placeholder == <<Callout(Pt(50, 50), 1, "Primary action", "primary")>>

\* annotations_map.get(img_stem, []), or the placeholder
EffectiveAnnotations(image) ==
    IF image.annotations = <<>> THEN Placeholder ELSE image.annotations

\* f"Action {num}"
ActionText(num) == "Action " \o ToString(num)

\* The legend loop over annotations 1..k: the manager and the legend items
RECURSIVE LegendItems(_, _, _, _)
LegendItems(mgr, stem, annotations, k) ==
    IF k = 0 THEN [manager |-> mgr, legend |-> <<>>]
    ELSE LET before == LegendItems(mgr, stem, annotations, k - 1)
             ann == annotations[k]
             num == IF ann.number = 0 THEN 1 ELSE ann.number
             desc == IF ann.description = "" THEN ActionText(num) ELSE ann.description
             a == assign(before.manager, <<stem, num>>,
                         OrDefault(ann.color, "primary"), desc)
         IN  IF ann.type = "callout"
             THEN [manager |-> a.manager,
                   legend |-> Append(before.legend,
                                     [number |-> num, hex |-> a.entry.hex, text |-> desc])]
             ELSE before

(***************************************************************************)
(* TextColorParser (scripts/text_color_parser.py)                          *)
(*                                                                         *)
(* A text is a sequence of lines and a line a sequence of tokens, which    *)
(* stands for the string of its tokens joined by single blanks, with no    *)
(* blank after "(" and none before ")".  The token "circled-n" stands for  *)
(* the circled digit n.  The regular expressions are matched on tokens.    *)
(***************************************************************************)
\* COLOR_NAMES: the keys of the module's COLOR_PALETTE, in dict order (the
\* same keys, order and hex values as FigureRegistry.COLOR_PALETTE)
COLOR_NAMES == [i \in 1..Len(COLOR_PALETTE) |-> COLOR_PALETTE[i][1]]

ANNOTATION_TYPES ==
    {"callout", "arrow", "highlight", "circle", "box", "label", "marker",
     "number", "indicator"}

\* The tokens \d+ matches, and int() of them
NumberTokens == {"0", "1", "2", "3"}
IntOf(t) == CASE t = "0" -> 0 [] t = "1" -> 1 [] t = "2" -> 2 [] OTHER -> 3

\* CIRCLED_NUMBERS on the circled digits of the model
CircledTokens == {"circled-1", "circled-2"}
CIRCLED_NUMBERS(t) == IF t = "circled-1" THEN 1 ELSE 2

IsColor(t) == Lower(t) \in PaletteNames
IsType(t) == Lower(t) \in ANNOTATION_TYPES
IsLead(t) == Lower(t) \in {"the", "see", "click", "select"}

\* The token at position i of the line; "" past its end
At(line, i) == IF i <= Len(line) THEN line[i] ELSE ""

\* FIGURE_REF_PATTERN.search(line): the number of the first "Figure N" or
\* "figure N" of the line, as <<N>>; <<>> without a match
figure_match(line) ==
    LET hits == {i \in 1..Len(line) :
                    line[i] \in {"Figure", "figure"} /\ At(line, i + 1) \in NumberTokens}
    IN  IF hits = {} THEN None
        ELSE Some(IntOf(line[(CHOOSE i \in hits : \A j \in hits : i <= j) + 1]))

NoMatch == [len |-> 0, color |-> "", type |-> "", number |-> None]
Match(len, color, t, number) == [len |-> len, color |-> color, type |-> t, number |-> number]

\* _find_color_context(before): the first color of the palette, in dict
\* order, that is a word of the tokens before position i; "" when none
find_color_context(line, i) ==
    LET present == {c \in 1..Len(COLOR_NAMES) :
                       \E j \in 1..(i - 1) : Lower(line[j]) = COLOR_NAMES[c]}
    IN  IF present = {} THEN ""
        ELSE COLOR_NAMES[CHOOSE c \in present : \A d \in present : c <= d]

\* The match of a pattern that starts at token i (len = 0: none)
MatchAt(pattern, line, i) ==
    CASE pattern = "parenthetical" ->
            IF line[i] = "(" /\ IsColor(At(line, i + 1)) /\ IsType(At(line, i + 2))
            THEN IF At(line, i + 3) = ")"
                 THEN Match(4, line[i + 1], line[i + 2], None)
                 ELSE IF At(line, i + 3) \in NumberTokens /\ At(line, i + 4) = ")"
                 THEN Match(5, line[i + 1], line[i + 2], Some(IntOf(line[i + 3])))
                 ELSE NoMatch
            ELSE NoMatch
      [] pattern = "inline" ->
            IF IsLead(line[i]) /\ IsColor(At(line, i + 1)) /\ IsType(At(line, i + 2))
            THEN IF At(line, i + 3) \in NumberTokens
                 THEN Match(4, line[i + 1], line[i + 2], Some(IntOf(line[i + 3])))
                 ELSE Match(3, line[i + 1], line[i + 2], None)
            ELSE NoMatch
      [] pattern = "number_first" ->
            IF /\ IsType(line[i]) /\ At(line, i + 1) \in NumberTokens
               /\ At(line, i + 2) = "(" /\ IsColor(At(line, i + 3)) /\ At(line, i + 4) = ")"
            THEN Match(5, line[i + 3], line[i], Some(IntOf(line[i + 1])))
            ELSE NoMatch
      [] OTHER ->
            IF line[i] \in CircledTokens
            THEN Match(1, find_color_context(line, i), "callout", Some(CIRCLED_NUMBERS(line[i])))
            ELSE NoMatch

\* pattern.finditer(line) from token i on: the matches, left to right,
\* none overlapping another
RECURSIVE finditer(_, _, _)
finditer(pattern, line, i) ==
    IF i > Len(line) THEN <<>>
    ELSE LET m == MatchAt(pattern, line, i)
         IN  IF m.len > 0
             THEN <<[color |-> m.color, type |-> m.type, number |-> m.number,
                     pattern |-> pattern, start |-> i]>>
                  \o finditer(pattern, line, i + m.len)
             ELSE finditer(pattern, line, i + 1)

\* The references _parse_line adds for a line, in the order it adds them; a
\* circled digit without color context adds none
LineMatches(line) ==
    SelectSeq(finditer("parenthetical", line, 1) \o finditer("inline", line, 1)
              \o finditer("number_first", line, 1) \o finditer("circled", line, 1),
              LAMBDA m : m.color # "")

\* _add_reference on a parser [references, by_figure, current_figure]
add_reference(parser, m, line_num) ==
    LET ref == [color |-> Lower(m.color), hex |-> PaletteHex(Lower(m.color)),
                annotation_type |-> Lower(m.type), number |-> m.number,
                line |-> line_num, figure |-> parser.current_figure,
                pattern |-> m.pattern]
        fig == parser.current_figure
    IN  [references |-> Append(parser.references, ref),
         by_figure |->
            IF fig # None /\ fig # Some(0)
            THEN DictSet(parser.by_figure, fig[1],
                         Append(IF fig[1] \in DOMAIN parser.by_figure
                                THEN parser.by_figure[fig[1]] ELSE <<>>, ref))
            ELSE parser.by_figure,
         current_figure |-> fig]

RECURSIVE AddReferences(_, _, _, _)
AddReferences(parser, matches, k, line_num) ==
    IF k = 0 THEN parser
    ELSE add_reference(AddReferences(parser, matches, k - 1, line_num), matches[k], line_num)

\* _parse_line that starts every line without figure context
parse_line_resetting(parser, line, line_num) ==
    LET matches == LineMatches(line)
    IN  AddReferences([parser EXCEPT !.current_figure = figure_match(line)],
                      matches, Len(matches), line_num)

\* _parse_line(line, line_num)
parse_line(parser, line, line_num) ==
    LET figure == figure_match(line)
        matches == LineMatches(line)
    IN  AddReferences(IF figure # None THEN [parser EXCEPT !.current_figure = figure]
                      ELSE parser,
                      matches, Len(matches), line_num)

\* parse_text on lines 1..k of the text, from the reset parser
RECURSIVE parse_text(_, _)
parse_text(lines, k) ==
    IF k = 0 THEN [references |-> <<>>, by_figure |-> EmptyDict, current_figure |-> None]
    ELSE parse_line(parse_text(lines, k - 1), lines[k], k)

\* get_expected_colors() over references 1..k
RECURSIVE get_expected_colors(_, _)
get_expected_colors(refs, k) ==
    IF k = 0 THEN EmptyDict
    ELSE LET result == get_expected_colors(refs, k - 1)
             ref == refs[k]
         IN  IF /\ ref.figure # None /\ ref.figure # Some(0)
                /\ ref.number # None /\ ref.number # Some(0)
             THEN LET fig == ref.figure[1]
                  IN  DictSet(result, fig,
                              DictSet(IF fig \in DOMAIN result THEN result[fig]
                                      ELSE EmptyDict,
                                      ref.number[1], ref.color))
             ELSE result

(***************************************************************************)
(* ColorConsistencyValidator (scripts/validate_procedure.py)               *)
(***************************************************************************)
\* COLOR_EQUIVALENTS in which gold lacks yellow
COLOR_EQUIVALENTS_asymmetric ==
    [c \in PaletteNames |->
        CASE c \in {"red", "critical"} -> {"red", "critical"}
          [] c \in {"blue", "info"} -> {"blue", "info"}
          [] c = "gold" -> {"gold", "warning"}
          [] c \in {"warning", "yellow"} -> {"gold", "warning", "yellow"}
          [] c \in {"green", "success"} -> {"green", "success"}
          [] c \in {"teal", "primary"} -> {"teal", "primary"}
          [] OTHER -> {c}]

\* COLOR_EQUIVALENTS: name -> the names of its list
COLOR_EQUIVALENTS ==
    [c \in PaletteNames |->
        CASE c \in {"red", "critical"} -> {"red", "critical"}
          [] c \in {"blue", "info"} -> {"blue", "info"}
          [] c \in {"gold", "warning", "yellow"} -> {"gold", "warning", "yellow"}
          [] c \in {"green", "success"} -> {"green", "success"}
          [] c \in {"teal", "primary"} -> {"teal", "primary"}
          [] OTHER -> {c}]

\* _colors_match(expected, actual)
colors_match(expected_color, actual_color) ==
    LET expected_lower == Lower(expected_color)
        actual_lower == Lower(actual_color)
        expected_equiv == IF expected_lower \in DOMAIN COLOR_EQUIVALENTS
                          THEN COLOR_EQUIVALENTS[expected_lower]
                          ELSE {expected_lower}
    IN  \/ expected_lower = actual_lower
        \/ actual_lower \in expected_equiv

\* A dict whose iteration order matters: the sequence of its <<key, value>>
\* items in insertion order.  ItemIndex is the position of a key, 0 if absent.
ItemIndex(items, key) ==
    IF \E i \in 1..Len(items) : items[i][1] = key
    THEN CHOOSE i \in 1..Len(items) : items[i][1] = key
    ELSE 0

\* items[key] = value: in place for a key it has, appended otherwise
ItemSet(items, key, value) ==
    IF ItemIndex(items, key) = 0 THEN Append(items, <<key, value>>)
    ELSE [items EXCEPT ![ItemIndex(items, key)] = <<key, value>>]

\* items.get(key, default)
ItemGet(items, key, default) ==
    IF ItemIndex(items, key) = 0 THEN default ELSE items[ItemIndex(items, key)][2]

\* The dict of an item sequence, order forgotten (dict equality)
AsDict(items) == [k \in {items[i][1] : i \in 1..Len(items)} |-> ItemGet(items, k, <<>>)]

\* ann_types of _parse_expected_colors
EXPECTED_ANN_TYPES ==
    {"callout", "arrow", "highlight", "circle", "box", "label", "marker", "number"}

\* The match of `pattern` of _parse_expected_colors that starts at token i:
\* its length in tokens (0: none), group 1 lowered, and the annotation
\* number, which is 1 when group 3 is missing
ExpectedMatchAt(line, i) ==
    IF /\ line[i] = "(" /\ IsColor(At(line, i + 1))
       /\ Lower(At(line, i + 2)) \in EXPECTED_ANN_TYPES
    THEN IF At(line, i + 3) = ")"
         THEN [len |-> 4, color |-> Lower(line[i + 1]), ann_num |-> 1]
         ELSE IF At(line, i + 3) \in NumberTokens /\ At(line, i + 4) = ")"
         THEN [len |-> 5, color |-> Lower(line[i + 1]), ann_num |-> IntOf(line[i + 3])]
         ELSE [len |-> 0, color |-> "", ann_num |-> 0]
    ELSE [len |-> 0, color |-> "", ann_num |-> 0]

\* result[current_figure][ann_num] = color, when current_figure is truthy
ExpectedSet(result, fig, m) ==
    IF fig # None /\ fig # Some(0)
    THEN ItemSet(result, fig[1], ItemSet(ItemGet(result, fig[1], <<>>), m.ann_num, m.color))
    ELSE result

\* The loop over pattern.finditer(line), from token i on
RECURSIVE ExpectedLine(_, _, _, _)
ExpectedLine(result, fig, line, i) ==
    IF i > Len(line) THEN result
    ELSE IF ExpectedMatchAt(line, i).len > 0
    THEN ExpectedLine(ExpectedSet(result, fig, ExpectedMatchAt(line, i)), fig, line,
                      i + ExpectedMatchAt(line, i).len)
    ELSE ExpectedLine(result, fig, line, i + 1)

\* One line of _parse_expected_colors on [result, current_figure]
ExpectedStep(st, line) ==
    LET fig == IF figure_match(line) # None THEN figure_match(line)
               ELSE st.current_figure
    IN  [result |-> ExpectedLine(st.result, fig, line, 1), current_figure |-> fig]

\* _parse_expected_colors on lines 1..k of the text
RECURSIVE ExpectedFold(_, _)
ExpectedFold(lines, k) ==
    IF k = 0 THEN [result |-> <<>>, current_figure |-> None]
    ELSE ExpectedStep(ExpectedFold(lines, k - 1), lines[k])

\* _parse_expected_colors(text): figure -> annotation number -> color, as
\* items in insertion order
parse_expected_colors(lines) == ExpectedFold(lines, Len(lines)).result

\* The (figure, annotation, expected color) triples in the order the loops
\* of validate visit them
RECURSIVE ExpectedTriples(_, _)
ExpectedTriples(expected_items, k) ==
    IF k = 0 THEN <<>>
    ELSE ExpectedTriples(expected_items, k - 1)
         \o [j \in 1..Len(expected_items[k][2]) |->
                [figure |-> expected_items[k][1],
                 annotation |-> expected_items[k][2][j][1],
                 expected |-> expected_items[k][2][j][2]]]

\* color_map.get(fig_str, {}).get(ann_str) on the color_map of a loaded
\* registry, whose keys are strings: <<entry>>, or None
ActualEntry(cmap, fig_num, ann_num) ==
    IF ToString(fig_num) \in DOMAIN cmap
    THEN IF ToString(ann_num) \in DOMAIN cmap[ToString(fig_num)]
         THEN Some(cmap[ToString(fig_num)][ToString(ann_num)])
         ELSE None
    ELSE None

\* The comparison loop body that reports a missing annotation as a mismatch
CompareStep_missing_is_mismatch(acc, t, entry) ==
    IF entry # None /\ colors_match(t.expected, entry[1].color_name)
    THEN [acc EXCEPT !.matches =
              Append(@, [figure |-> t.figure, annotation |-> t.annotation,
                         expected |-> t.expected, actual |-> entry[1].color_name])]
    ELSE [acc EXCEPT !.mismatches =
              Append(@, [figure |-> t.figure, annotation |-> t.annotation,
                         expected |-> t.expected,
                         actual |-> IF entry = None THEN "unknown" ELSE entry[1].color_name]),
                     !.errors =
              Append(@, [kind |-> "COLOR MISMATCH", figure |-> t.figure,
                         annotation |-> t.annotation, expected |-> t.expected,
                         actual |-> IF entry = None THEN "unknown" ELSE entry[1].color_name])]

\* The body of the comparison loop for one triple, on the lists so far
CompareStep(acc, t, entry) ==
    IF entry = None
    THEN [acc EXCEPT !.warnings =
              Append(@, [kind |-> "not found", figure |-> t.figure,
                         annotation |-> t.annotation, expected |-> t.expected])]
    ELSE IF colors_match(t.expected, entry[1].color_name)
    THEN [acc EXCEPT !.matches =
              Append(@, [figure |-> t.figure, annotation |-> t.annotation,
                         expected |-> t.expected, actual |-> entry[1].color_name])]
    ELSE [acc EXCEPT !.mismatches =
              Append(@, [figure |-> t.figure, annotation |-> t.annotation,
                         expected |-> t.expected, actual |-> entry[1].color_name]),
                     !.errors =
              Append(@, [kind |-> "COLOR MISMATCH", figure |-> t.figure,
                         annotation |-> t.annotation, expected |-> t.expected,
                         actual |-> entry[1].color_name])]

RECURSIVE Compare(_, _, _)
Compare(cmap, triples, k) ==
    IF k = 0 THEN [errors |-> <<>>, warnings |-> <<>>, matches |-> <<>>, mismatches |-> <<>>]
    ELSE CompareStep(Compare(cmap, triples, k - 1), triples[k],
                     ActualEntry(cmap, triples[k].figure, triples[k].annotation))

Skipped(why) == [kind |-> "skipped", figure |-> 0, annotation |-> 0, expected |-> why]

\* What validate returns and leaves in self.matches / self.mismatches;
\* expected is the local variable of line 108, None when it is not reached
Validated(is_valid, errors, warnings, matches, mismatches, expected_items) ==
    [is_valid |-> is_valid, errors |-> errors, warnings |-> warnings,
     matches |-> matches, mismatches |-> mismatches, expected |-> expected_items]

\* Lines 114-162 of validate
CompareAll(cmap, expected_items, acc) ==
    Validated(acc.errors = <<>>, acc.errors, acc.warnings, acc.matches, acc.mismatches,
              Some(expected_items))

\* Lines 107-162 of validate
CompareExpected(cmap, expected_items) ==
    IF expected_items = <<>>
    THEN Validated(TRUE, <<>>, <<Skipped("no color references")>>, <<>>, <<>>,
                   Some(expected_items))
    ELSE CompareAll(cmap, expected_items,
                    Compare(cmap, ExpectedTriples(expected_items, Len(expected_items)),
                            Len(ExpectedTriples(expected_items, Len(expected_items)))))

\* ColorConsistencyValidator.validate(doc_content, registry_path).  registry
\* is None when registry_path does not exist, else <<json>> with json the
\* loaded file: [color_map |-> None] without the key, [color_map |-> <<m>>]
\* with it.
consistency_validate(doc_content, registry) ==
    IF registry = None
    THEN Validated(TRUE, <<>>, <<Skipped("no registry")>>, <<>>, <<>>, None)
    ELSE IF registry[1].color_map = None \/ DOMAIN registry[1].color_map[1] = {}
    THEN Validated(TRUE, <<>>, <<Skipped("no color_map")>>, <<>>, <<>>, None)
    ELSE CompareExpected(registry[1].color_map[1], parse_expected_colors(doc_content))

\* A message of validate() that is not about one annotation
Message(kind, figure) == [kind |-> kind, figure |-> figure, annotation |-> 0, expected |-> ""]

\* `phrase in doc_content` for a phrase of one or two tokens
Contains(lines, phrase) ==
    \E l \in 1..Len(lines) : \E i \in 1..Len(lines[l]) :
        \A j \in 1..Len(phrase) : At(lines[l], i + j - 1) = phrase[j]

\* "MISSING SECTION" errors, in the order of required_sections
MissingSections(lines) ==
    (IF Contains(lines, <<"OVERVIEW">>) THEN <<>> ELSE <<Message("MISSING SECTION: OVERVIEW", 0)>>)
    \o (IF Contains(lines, <<"RELATED">>) THEN <<>> ELSE <<Message("MISSING SECTION: RELATED", 0)>>)
    \o (IF Contains(lines, <<"Revision", "History">>) THEN <<>>
        ELSE <<Message("MISSING SECTION: Revision History", 0)>>)

\* "not referenced in document text" warnings for figures 1..k of the index
\* ("Fig." and "fig." are not tokens of the model)
RECURSIVE Unreferenced(_, _, _)
Unreferenced(lines, figure_numbers, k) ==
    IF k = 0 THEN <<>>
    ELSE Unreferenced(lines, figure_numbers, k - 1)
         \o (IF \/ Contains(lines, <<"Figure", ToString(figure_numbers[k])>>)
                \/ Contains(lines, <<"figure", ToString(figure_numbers[k])>>)
             THEN <<>> ELSE <<Message("not referenced", figure_numbers[k])>>)

\* The errors of the annotation coverage check
CoverageErrors(fig_index) ==
    IF fig_index.total_figures = 0
    THEN <<Message("CRITICAL: No figures found", 0), Message("Run screenshot_processor", 0)>>
    ELSE IF fig_index.total_annotations = 0
    THEN <<Message("CRITICAL: No annotations applied", 0), Message("Create annotations.json", 0)>>
    ELSE <<>>

CoverageWarnings(fig_index) ==
    IF /\ fig_index.total_figures # 0 /\ fig_index.total_annotations # 0
       /\ fig_index.coverage_pct < 100
    THEN <<Message("Low annotation coverage", 0)>> ELSE <<>>

HeaderWarnings(lines) ==
    (IF Contains(lines, <<"Date", "Updated:">>) \/ Contains(lines, <<"Date", "updated:">>)
     THEN <<>> ELSE <<Message("Missing 'Date Updated'", 0)>>)
    \o (IF Contains(lines, <<"Department:">>) THEN <<>>
        ELSE <<Message("Missing 'Department'", 0)>>)

\* Lines 482-485: what the color validation adds to warnings
ColorMessages(c) == (IF c.is_valid THEN <<>> ELSE c.errors) \o c.warnings

\* validate()'s verdict when the color errors are blocking
Verdict_blocking(errors, warnings) ==
    [is_valid |-> errors = <<>> /\ \A i \in 1..Len(warnings) : warnings[i].kind # "COLOR MISMATCH",
     messages |-> errors \o warnings]

\* Lines 425-522 of validate(), given the lists of errors and warnings
Verdict(errors, warnings) == [is_valid |-> errors = <<>>, messages |-> errors \o warnings]

\* validate(doc_path, figures_path, registry_path, check_colors).  p holds
\* figures_exists, fig_index (the loaded figure index), doc_exists,
\* check_colors and registry_given (registry_path is not None); lines is the
\* document text and registry the registry file as for consistency_validate.
validate(p, lines, registry) ==
    IF ~p.figures_exists
    THEN [is_valid |-> FALSE,
          messages |-> <<Message("CRITICAL: Figure index not found", 0),
                         Message("Run generate_figure_index", 0)>>]
    ELSE IF ~p.doc_exists
    THEN [is_valid |-> FALSE, messages |-> <<Message("CRITICAL: Document not found", 0)>>]
    ELSE Verdict(MissingSections(lines) \o CoverageErrors(p.fig_index),
                 Unreferenced(lines, p.fig_index.figure_numbers,
                              Len(p.fig_index.figure_numbers))
                 \o CoverageWarnings(p.fig_index) \o HeaderWarnings(lines)
                 \o (IF p.check_colors /\ p.registry_given
                     THEN ColorMessages(consistency_validate(lines, registry))
                     ELSE <<>>))

(***************************************************************************)
(* validate_annotations_preprocess (scripts/validate_procedure.py)         *)
(*                                                                         *)
(* The loaded annotations.json is a sequence of entries in file order; the *)
(* key of the entry at position i is the image stem i, or a metadata key.  *)
(* An error or warning is a record of what its text says.                  *)
(***************************************************************************)
PreMessage(kind, image, number, t, x, y) ==
    [kind |-> kind, image |-> image, number |-> number, type |-> t, x |-> x, y |-> y]

\* One entry of annotations.json: is_meta for a key in meta_keys, is_list for
\* a value that is a list, metadata for a first annotation with figure_title
\* or section
FileEntry(is_meta, is_list, annotations, metadata) ==
    [is_meta |-> is_meta, is_list |-> is_list, annotations |-> annotations,
     metadata |-> metadata]

\* 0 <= v <= 100
InPercentRange(v) == 0 <= v /\ v <= 100

\* ann.get("number", i + 1), with i + 1 the position k of the annotation
AnnotationNumber(ann, k) == IF ann.number = 0 THEN k ELSE ann.number

\* Lines 292-295: the required description field
DescriptionErrors(image, ann, num) ==
    IF ann.description = ""
    THEN <<PreMessage("missing description", image, num, ann.type, 0, 0)>>
    ELSE <<>>

\* Lines 302-309: position of a callout, circle or label
PositionErrors(image, num, x, y) ==
    (IF ~InPercentRange(x) THEN <<PreMessage("invalid x", image, num, "", x, y)>> ELSE <<>>)
    \o (IF ~InPercentRange(y) THEN <<PreMessage("invalid y", image, num, "", x, y)>>
        ELSE <<>>)

\* Lines 312-319: positions near an edge
EdgeWarnings(image, num, x, y) ==
    (IF x < 5 \/ x > 95 THEN <<PreMessage("near horizontal edge", image, num, "", x, y)>>
     ELSE <<>>)
    \o (IF y < 5 \/ y > 95 THEN <<PreMessage("near vertical edge", image, num, "", x, y)>>
        ELSE <<>>)

\* Lines 329-332: position of a highlight
HighlightErrors(image, bbox) ==
    IF ~InPercentRange(bbox.x) \/ ~InPercentRange(bbox.y)
    THEN <<PreMessage("highlight position", image, 0, "", bbox.x, bbox.y)>>
    ELSE <<>>

\* The warning of lines 333-336 for the horizontal direction only
HighlightWarnings_x_only(image, bbox) ==
    IF bbox.x + bbox.w > 100
    THEN <<PreMessage("highlight extends", image, 0, "", bbox.x, bbox.y)>>
    ELSE <<>>

\* Lines 333-336: a highlight that extends beyond the image
HighlightWarnings(image, bbox) ==
    IF bbox.x + bbox.w > 100 \/ bbox.y + bbox.h > 100
    THEN <<PreMessage("highlight extends", image, 0, "", bbox.x, bbox.y)>>
    ELSE <<>>

\* Lines 342-347: one end of an arrow
ArrowEndErrors(image, pos, name) ==
    IF ~InPercentRange(pos.x) \/ ~InPercentRange(pos.y)
    THEN <<PreMessage(name, image, 0, "", pos.x, pos.y)>>
    ELSE <<>>

\* The checks of one annotation (lines 287-347): its errors, its warnings and
\* the position it adds for the collision check
CheckAnnotation(image, ann, num) ==
    CASE ann.type \in {"callout", "circle", "label"} ->
            [errors |-> DescriptionErrors(image, ann, num)
                            \o PositionErrors(image, num, ann.position.x, ann.position.y),
             warnings |-> EdgeWarnings(image, num, ann.position.x, ann.position.y),
             positions |-> <<[x |-> ann.position.x, y |-> ann.position.y, number |-> num]>>]
      [] ann.type = "highlight" ->
            [errors |-> DescriptionErrors(image, ann, num) \o HighlightErrors(image, ann.bbox),
             warnings |-> HighlightWarnings(image, ann.bbox),
             positions |-> <<>>]
      [] ann.type = "arrow" ->
            [errors |-> DescriptionErrors(image, ann, num)
                            \o ArrowEndErrors(image, ann.position, "arrow start")
                            \o ArrowEndErrors(image, ann.end, "arrow end"),
             warnings |-> <<>>,
             positions |-> <<>>]
      [] OTHER ->
            [errors |-> DescriptionErrors(image, ann, num), warnings |-> <<>>,
             positions |-> <<>>]

\* Field by field concatenation of two check results
CheckJoin(a, b) ==
    [errors |-> a.errors \o b.errors, warnings |-> a.warnings \o b.warnings,
     positions |-> a.positions \o b.positions]

\* The loop over annotations 1..k of one list
RECURSIVE CheckAnnotations(_, _, _)
CheckAnnotations(image, ann_list, k) ==
    IF k = 0 THEN [errors |-> <<>>, warnings |-> <<>>, positions |-> <<>>]
    ELSE CheckJoin(CheckAnnotations(image, ann_list, k - 1),
                   CheckAnnotation(image, ann_list[k], AnnotationNumber(ann_list[k], k)))

\* math.sqrt((x2 - x1) ** 2 + (y2 - y1) ** 2) < 10 on integer percentages
TooClose(p, q) == (q.x - p.x) * (q.x - p.x) + (q.y - p.y) * (q.y - p.y) < 100

\* Lines 350-356: the pairs (i, j), i < j, in loop order from pair (i, j) on
RECURSIVE OverlapWarnings(_, _, _, _)
OverlapWarnings(image, positions, i, j) ==
    IF i > Len(positions) THEN <<>>
    ELSE IF j > Len(positions) THEN OverlapWarnings(image, positions, i + 1, i + 2)
    ELSE (IF TooClose(positions[i], positions[j])
          THEN <<PreMessage("may overlap", image, positions[i].number, "",
                            positions[j].number, 0)>>
          ELSE <<>>)
         \o OverlapWarnings(image, positions, i, j + 1)

\* The body of the loop over annotations.items() for one entry
CheckEntry(image, entry, checked) ==
    IF entry.is_meta THEN [errors |-> <<>>, warnings |-> <<>>]
    ELSE IF ~entry.is_list
    THEN [errors |-> <<>>, warnings |-> <<PreMessage("not a list", image, 0, "", 0, 0)>>]
    ELSE [errors |-> checked.errors,
          warnings |-> checked.warnings \o OverlapWarnings(image, checked.positions, 1, 2)]

\* The loop over entries 1..k of the file
RECURSIVE CheckEntries(_, _)
CheckEntries(entries, k) ==
    IF k = 0 THEN [errors |-> <<>>, warnings |-> <<>>, positions |-> <<>>]
    ELSE CheckJoin(CheckEntries(entries, k - 1),
                   [positions |-> <<>>] @@
                   CheckEntry(k, entries[k],
                              CheckAnnotations(k, entries[k].annotations,
                                               Len(entries[k].annotations))))

\* Lines 358-372: images without figure_title or section metadata
MetadataWarnings(entries) ==
    LET total == Cardinality({k \in 1..Len(entries) : ~entries[k].is_meta})
        with == Cardinality({k \in 1..Len(entries) :
                                /\ ~entries[k].is_meta /\ entries[k].is_list
                                /\ entries[k].annotations # <<>> /\ entries[k].metadata})
    IN  IF with < total THEN <<PreMessage("metadata", 0, 0, "", with, total)>> ELSE <<>>

\* The returned triple
Preprocessed(errors, warnings) ==
    [is_valid |-> errors = <<>>, errors |-> errors, warnings |-> warnings]

\* validate_annotations_preprocess(annotations_path) on the file
\* [exists, entries]
validate_annotations_preprocess(file) ==
    IF ~file.exists
    THEN [is_valid |-> FALSE, errors |-> <<PreMessage("not found", 0, 0, "", 0, 0)>>,
          warnings |-> <<>>]
    ELSE Preprocessed(CheckEntries(file.entries, Len(file.entries)).errors,
                      CheckEntries(file.entries, Len(file.entries)).warnings
                          \o MetadataWarnings(file.entries))

(***************************************************************************)
(* Initial values of the objects                                           *)
(***************************************************************************)
\* No validator constructed
ValidatorIdle ==
    /\ width = 0 /\ height = 0 /\ placed_annotations = <<>>
    /\ results = None /\ call = [op |-> "init", anns |-> <<>>]

\* FigureRegistry.__init__
RegistryNew ==
    /\ figures = <<>> /\ next_number = 1 /\ color_map = EmptyDict /\ returned = <<>>

\* AnnotationColorManager.__init__
ManagerNew == assigned = EmptyDict /\ next_index = 0

DirectoryIdle ==
    /\ image_files = <<>> /\ processed = 0 /\ canvas = <<>> /\ status = "idle"

\* TextColorParser.__init__
ParserNew ==
    /\ text = <<>> /\ references = <<>> /\ by_figure = EmptyDict
    /\ current_figure = None /\ parsed = FALSE

\* No document is being validated
ConsistencyIdle ==
    /\ document = <<>> /\ registry_file = None /\ procedure = None
    /\ color_result = None /\ validation = None

\* assign and validate_annotations_preprocess have not been called
GeometryIdle == geometry_call = None /\ geometry_result = None

ReviewIdle ==
    /\ review_call = None /\ reviewed = 0 /\ lines_read = 0 /\ approved = <<>>
    /\ approve_all = FALSE /\ prompted = <<>>

ReportIdle == report_call = None /\ report_result = None

ToolsIdle == GeometryIdle /\ ReviewIdle /\ ReportIdle

CallIdle ==
    assign_call = None /\ annotations_file = <<>> /\ preprocess = None /\ ToolsIdle

MatchIdle == expected = "" /\ actual = "" /\ matched = None /\ ConsistencyIdle /\ CallIdle

(***************************************************************************)
(* Specification of one AnnotationValidator instance                       *)
(***************************************************************************)
\* Image sizes (width, height) the validator is constructed for.  With
\* these dimensions no percentage in half-percent steps falls on a rounding
\* tie, so that the float product of percent_to_pixels rounds as the
\* rational does.
Sizes == {<<1000, 1000>>, <<200, 40>>}

\* Descriptors handed to a validator of a w x h image
AnnsFor(w, h) ==
    IF w = 1000 THEN
        {Callout(Pt(50, 50), 1, "Click Login", ""),
         Callout(Pt(50, 50), 2, "Enter password", ""),
         Callout(Pt(100, 100), 3, "", ""),
         Highlight(Box(90, 90, 20, 20), "Totals", ""),
         Circle(Pt(53, 52), 5, "")}
    ELSE
        {Callout(Pt(50, 50), 1, "Open menu", ""),
         Arrow(Pt(20, 20), Pt(53, 52), "", ""),
         Label(Pt(48, 55), 5, "")}

\* Descriptor lists: no descriptor twice
AnnListsFor(w, h) ==
    {l \in SeqsUpTo(AnnsFor(w, h), MaxAnns) : \A i, j \in 1..Len(l) : i # j => l[i] # l[j]}

otherThanValidator ==
    <<registryVars, managerVars, directoryVars, parserVars, matchVars>>

ValidatorInit ==
    /\ \E size \in Sizes : width = size[1] /\ height = size[2]
    /\ placed_annotations = <<>>
    /\ results = None
    /\ call = [op |-> "init", anns |-> <<>>]
    /\ RegistryNew /\ ManagerNew /\ DirectoryIdle /\ ParserNew /\ MatchIdle

ValidateAndAdjust(ann) ==
    /\ Len(placed_annotations) < MaxPlaced
    /\ \E r \in {validate_and_adjust(placed_annotations, ann, width, height)} :
           /\ placed_annotations' = r.placed
           /\ results' = r.result
    /\ call' = [op |-> "validate_and_adjust", anns |-> <<ann>>]
    /\ UNCHANGED <<width, height, otherThanValidator>>

ValidateAll(annotations) ==
    /\ \E r \in {validate_all(placed_annotations, annotations, width, height)} :
           /\ placed_annotations' = r.placed
           /\ results' = r.results
    /\ call' = [op |-> "validate_all", anns |-> annotations]
    /\ UNCHANGED <<width, height, otherThanValidator>>

ValidatorNext ==
    \/ \E ann \in AnnsFor(width, height) : ValidateAndAdjust(ann)
    \/ \E annotations \in AnnListsFor(width, height) : ValidateAll(annotations)

SpecValidator == ValidatorInit /\ [][ValidatorNext]_vars

(***************************************************************************)
(* Properties of the validator                                             *)
(***************************************************************************)
\* C2, as stated: every record of placed_annotations keeps the margin on all
\* four sides: margin <= x - radius, x + radius <= width - margin, and the
\* same for y and height.
C2_PlacedWithinMargins ==
    \A i \in 1..Len(placed_annotations) :
        LET p == placed_annotations[i]
        IN  /\ margin <= p.x - p.radius /\ p.x + p.radius <= width - margin
            /\ margin <= p.y - p.radius /\ p.y + p.radius <= height - margin

\* C2, amended: every placed record whose effective radius fits the image,
\* 2 * (radius + margin) <= width and <= height, keeps the margin on all four
\* sides.
C2_FittingPlacedWithinMargins ==
    \A i \in 1..Len(placed_annotations) :
        LET p == placed_annotations[i]
        IN  (2 * (p.radius + margin) <= width /\ 2 * (p.radius + margin) <= height)
            => /\ margin <= p.x - p.radius /\ p.x + p.radius <= width - margin
               /\ margin <= p.y - p.radius /\ p.y + p.radius <= height - margin

\* A call clamped a fitting annotation that was out of bounds
C2_Witness ==
    /\ call.op = "validate_and_adjust"
    /\ results.warnings # <<>> /\ results.warnings[1].kind = "bounds"
    /\ LET p == placed_annotations[Len(placed_annotations)]
       IN  /\ 2 * (p.radius + margin) <= width /\ 2 * (p.radius + margin) <= height
           /\ <<p.x, p.y>> # <<results.original_position.x, results.original_position.y>>

\* C3, as stated: after validate_all no two placed records collide: the
\* distance of their centers is at least radius1 + radius2 + 5.
C3_NoTwoPlacedCollide ==
    call.op = "validate_all" =>
        \A i, j \in 1..Len(placed_annotations) :
            i < j =>
                LET p == placed_annotations[i]
                    q == placed_annotations[j]
                IN  (p.x - q.x) * (p.x - q.x) + (p.y - q.y) * (p.y - q.y)
                        >= (p.radius + q.radius + 5) * (p.radius + q.radius + 5)

\* C3, amended: after validate_all, a placed record whose result carries no
\* collision warning is at least radius1 + radius2 + 5 away from every
\* record placed before it.
C3_UnwarnedPlacedCollideWithNoEarlier ==
    call.op = "validate_all" =>
        \A i, j \in 1..Len(placed_annotations) :
            (/\ i < j
             /\ \A n \in 1..Len(results.annotations[j].result.warnings) :
                    results.annotations[j].result.warnings[n].kind # "collision")
            => LET p == placed_annotations[i]
                   q == placed_annotations[j]
               IN  (p.x - q.x) * (p.x - q.x) + (p.y - q.y) * (p.y - q.y)
                       >= (p.radius + q.radius + 5) * (p.radius + q.radius + 5)

\* validate_all placed three records, the second with a collision warning
\* and the third without
C3_Witness ==
    /\ call.op = "validate_all" /\ Len(placed_annotations) = 3
    /\ \E n \in 1..Len(results.annotations[2].result.warnings) :
           results.annotations[2].result.warnings[n].kind = "collision"
    /\ \A n \in 1..Len(results.annotations[3].result.warnings) :
           results.annotations[3].result.warnings[n].kind # "collision"

\* C4: validate_all on callouts 1 and 2, both at the center of a 1000 x 1000
\* image: the first is not adjusted; the result of the second has a
\* collision warning, adjusted = true and an adjusted_position that passes
\* check_bounds and is not the position of the first.
C4_TwoCalloutsAtCenter ==
    (/\ call.op = "validate_all" /\ width = 1000 /\ height = 1000
     /\ call.anns = <<Callout(Pt(50, 50), 1, "Click Login", ""),
                      Callout(Pt(50, 50), 2, "Enter password", "")>>)
    => LET first == results.annotations[1].result
           second == results.annotations[2].result
       IN  /\ ~first.adjusted /\ first.adjusted_position = None
           /\ <<placed_annotations[1].x, placed_annotations[1].y>> = <<500, 500>>
           /\ \E n \in 1..Len(second.warnings) : second.warnings[n].kind = "collision"
           /\ second.adjusted
           /\ second.adjusted_position # None
           /\ LET a == second.adjusted_position[1]
              IN  /\ check_bounds(a.x, a.y, a.radius, width, height) = "OK"
                  /\ <<a.x, a.y>> # <<placed_annotations[1].x, placed_annotations[1].y>>
                  /\ <<a.x, a.y>> = <<placed_annotations[2].x, placed_annotations[2].y>>

\* The two callouts were validated and the second was pushed to (566, 566)
C4_Witness ==
    /\ call.op = "validate_all" /\ width = 1000
    /\ call.anns = <<Callout(Pt(50, 50), 1, "Click Login", ""),
                     Callout(Pt(50, 50), 2, "Enter password", "")>>
    /\ <<placed_annotations[2].x, placed_annotations[2].y>> = <<566, 566>>

\* C5: after validate_all(annotations), for every k the first k placed
\* records and the first k results are those of validate_all on the first k
\* descriptors alone, on a validator without earlier calls: they depend
\* neither on the descriptors that follow nor on the calls made before.
C5_PrefixIndependent ==
    call.op = "validate_all" =>
        /\ Len(placed_annotations) = Len(call.anns)
        /\ \A k \in 0..Len(call.anns) :
               LET alone == ValidateFold(<<>>, SubSeq(call.anns, 1, k), k, width, height)
               IN  /\ SubSeq(placed_annotations, 1, k) = alone.placed
                   /\ SubSeq(results.annotations, 1, k) = alone.annotations

\* validate_all of three descriptors, one of them adjusted
C5_Witness ==
    /\ call.op = "validate_all" /\ Len(call.anns) = 3
    /\ Len(placed_annotations) = 3 /\ results.adjusted >= 1

\* C6: every validate_and_adjust call appends exactly one record to
\* placed_annotations and leaves the earlier records as they were; its
\* result has valid = false and an error exactly when the descriptor is a
\* callout, arrow or highlight without description; a bounds or collision
\* warning comes with adjusted = true.
C6_AlwaysPlacedOnlyDescriptionRejects ==
    [][call'.op = "validate_and_adjust" =>
        LET ann == call'.anns[1]
            missing == ann.description = ""
                       /\ ann.type \in {"callout", "arrow", "highlight"}
        IN  /\ Len(placed_annotations') = Len(placed_annotations) + 1
            /\ SubSeq(placed_annotations', 1, Len(placed_annotations)) = placed_annotations
            /\ results'.valid = ~missing
            /\ (results'.errors # <<>>) = missing
            /\ (results'.warnings # <<>>) = results'.adjusted
            /\ results'.adjusted = (results'.adjusted_position # None)]_vars

\* A descriptor without description was rejected and yet placed as the
\* second record, adjusted
C6_Witness ==
    /\ call.op = "validate_and_adjust"
    /\ ~results.valid /\ results.errors # <<>> /\ results.adjusted
    /\ Len(placed_annotations) = 2
    /\ placed_annotations[2].type = call.anns[1].type

(***************************************************************************)
(* Specification of process_directory on one input directory               *)
(***************************************************************************)
\* What an image file of the input directory can be: its size, whether
\* Image.open can read it, and its entry in annotations_map (<<>>: none)
ImageKinds ==
    {[w |-> 1000, h |-> 1000, readable |-> TRUE, annotations |->
        <<Callout(Pt(50, 50), 1, "Click Login", "#C00000"),
          Callout(Pt(50, 50), 2, "Enter password", "")>>],
     [w |-> 1000, h |-> 1000, readable |-> TRUE, annotations |->
        <<Callout(Pt(30, 30), 1, "Open menu", ""),
          Callout(Pt(70, 70), 2, "", "#2E74B5")>>],
     [w |-> 1000, h |-> 1000, readable |-> TRUE, annotations |->
        <<Callout(Pt(100, 100), 1, "Save", "#548235"),
          Highlight(Box(90, 90, 20, 20), "Totals", "#FFC000"),
          Arrow(Pt(20, 20), Pt(53, 52), "Go", "")>>],
     [w |-> 200, h |-> 40, readable |-> TRUE, annotations |->
        <<Label(Pt(48, 55), 5, ""), Circle(Pt(52, 47), 5, "#ED7D31")>>],
     [w |-> 200, h |-> 40, readable |-> TRUE, annotations |->
        <<Callout(Pt(50, 50), 1, "Open menu", "red")>>],
     [w |-> 200, h |-> 40, readable |-> TRUE, annotations |->
        <<Descriptor("Callout", Pt(50, 50), Pt(50, 50), Box(40, 40, 20, 20), 5, 5,
                     "Open menu", 1, "")>>],
     [w |-> 1000, h |-> 1000, readable |-> TRUE, annotations |-> <<>>],
     [w |-> 200, h |-> 40, readable |-> FALSE, annotations |->
        <<Callout(Pt(50, 50), 1, "Open menu", "#154747")>>]}

\* Longest input directory
MaxImages == 2

\* image_files, sorted by name: the image at position i has the stem i
DirectoryInit ==
    /\ image_files \in SeqsUpTo(ImageKinds, MaxImages)
    /\ processed = 0 /\ canvas = <<>> /\ status = "running"
    /\ ValidatorIdle /\ RegistryNew /\ ManagerNew /\ ParserNew /\ MatchIdle

\* One iteration of the loop of process_directory that completes
ProcessImage ==
    /\ status = "running" /\ processed < Len(image_files)
    /\ LET image == image_files[processed + 1]
           annotations == EffectiveAnnotations(image)
       IN  /\ image.readable
           /\ \E drawn \in {process_image(annotations, Len(annotations), image.w, image.h)} :
                /\ ~drawn.raised
                /\ canvas' = Append(canvas, drawn.drawn)
           /\ \E l \in {LegendItems([assigned |-> assigned, next_index |-> next_index],
                                    processed + 1, annotations, Len(annotations))} :
                /\ assigned' = l.manager.assigned
                /\ next_index' = l.manager.next_index
                /\ \E a \in {add_figure(Registry, processed + 1, annotations, l.legend)} :
                     /\ figures' = a.registry.figures
                     /\ next_number' = a.registry.next_number
                     /\ color_map' = a.registry.color_map
                     /\ returned' = Append(returned, a.figure_num)
    /\ processed' = processed + 1
    /\ UNCHANGED <<image_files, status, validatorVars, parserVars, matchVars>>

\* An iteration in which Image.open or a renderer raises: nothing catches
\* the exception, which leaves process_directory
ProcessImageRaises ==
    /\ status = "running" /\ processed < Len(image_files)
    /\ LET image == image_files[processed + 1]
           annotations == EffectiveAnnotations(image)
       IN  \/ ~image.readable
           \/ process_image(annotations, Len(annotations), image.w, image.h).raised
    /\ status' = "raised"
    /\ UNCHANGED <<image_files, processed, canvas, validatorVars, registryVars,
                   managerVars, parserVars, matchVars>>

\* The loop ends (or there was no image): process_directory returns
DirectoryReturns ==
    /\ status = "running" /\ processed = Len(image_files)
    /\ status' = "done"
    /\ UNCHANGED <<image_files, processed, canvas, validatorVars, registryVars,
                   managerVars, parserVars, matchVars>>

DirectoryNext == ProcessImage \/ ProcessImageRaises \/ DirectoryReturns

SpecDirectory == DirectoryInit /\ [][DirectoryNext]_vars

(***************************************************************************)
(* Properties of process_directory                                         *)
(***************************************************************************)
\* C1: every callout drawn on the canvas of a processed image is drawn at
\* the position the validator gives it: the placed position that
\* validate_all, on the image's annotation list, registers for that
\* annotation.
C1_DrawnAtValidatedPosition ==
    \A i \in 1..Len(canvas) :
        LET image == image_files[i]
            annotations == EffectiveAnnotations(image)
            validated == validate_all(<<>>, annotations, image.w, image.h).placed
        IN  \A d \in 1..Len(canvas[i]) :
                canvas[i][d].type = "callout" =>
                    <<canvas[i][d].x, canvas[i][d].y>>
                        = <<validated[canvas[i][d].index].x, validated[canvas[i][d].index].y>>

\* The image can be opened and every renderer call of its annotations returns
Processable(image) ==
    /\ image.readable
    /\ ~process_image(EffectiveAnnotations(image), Len(EffectiveAnnotations(image)),
                      image.w, image.h).raised

\* C15: a failure while processing one image does not abort the batch:
\* process_directory never ends with the exception of an image, and when it
\* has ended, every image that can be processed is registered as a figure.
C15_FailureDoesNotAbortBatch ==
    /\ status # "raised"
    /\ status = "done" =>
           Len(figures) = Cardinality({i \in 1..Len(image_files) : Processable(image_files[i])})

\* The annotation's color is a key of the color palette
HasPaletteKey(ann) == ann.color \in PaletteNames

\* C16: an annotation whose color is a palette key is rendered with the hex
\* of that key and without an error: an image that can be opened and whose
\* annotations have an empty color, a hex color or a palette key is
\* processed, and every drawing of a palette-key annotation has the palette
\* hex as its color.
C16_PaletteKeyRendered ==
    /\ \A i \in 1..Len(canvas) : \A d \in 1..Len(canvas[i]) :
           LET ann == EffectiveAnnotations(image_files[i])[canvas[i][d].index]
           IN  HasPaletteKey(ann) => canvas[i][d].color = PaletteHex(ann.color)
    /\ status = "raised" =>
           LET image == image_files[processed + 1]
               annotations == EffectiveAnnotations(image)
           IN  \/ ~image.readable
               \/ \E k \in 1..Len(annotations) :
                      /\ ~HasPaletteKey(annotations[k])
                      /\ hex_to_rgb_raises(RenderColor(annotations[k]))

MaxFigures == 3

\* Annotation lists handed to add_figure
FigureAnnotations ==
    {<<>>,
     <<Callout(Pt(50, 50), 1, "Click Login", "red")>>,
     <<Callout(Pt(30, 30), 1, "Open menu", "#2E74B5"),
       Callout(Pt(70, 70), 2, "Save", "Warning")>>,
     <<Highlight(Box(10, 10, 20, 20), "Totals", "#FF00FF"),
       Callout(Pt(50, 50), 2, "", "")>>,
     <<Callout(Pt(20, 80), 1, "Pick a date", "#FF00FF"),
       Callout(Pt(80, 20), 3, "Confirm", "magenta")>>}

SourcePaths == {"login.png", "menu.png"}

RegistryInit ==
    /\ RegistryNew
    /\ ValidatorIdle /\ ManagerNew /\ DirectoryIdle /\ ParserNew /\ MatchIdle

AddFigure(source, annotations) ==
    /\ Len(figures) < MaxFigures
    /\ \E a \in {add_figure(Registry, source, annotations, <<>>)} :
           /\ figures' = a.registry.figures
           /\ next_number' = a.registry.next_number
           /\ color_map' = a.registry.color_map
           /\ returned' = Append(returned, a.figure_num)
    /\ UNCHANGED <<validatorVars, managerVars, directoryVars, parserVars, matchVars>>

\* registry.save(output_path), and json.load of the file (load_registry)
SaveAndLoad ==
    /\ registry_file' = Some(json_load_dump(to_json(Registry)))
    /\ UNCHANGED <<registryVars, document, procedure, color_result, validation,
                   expected, actual, matched, callVars,
                   validatorVars, managerVars, directoryVars, parserVars>>

RegistryNext ==
    \/ \E source \in SourcePaths, annotations \in FigureAnnotations :
           AddFigure(source, annotations)
    \/ SaveAndLoad

SpecRegistry == RegistryInit /\ [][RegistryNext]_vars

\* C7: the k-th add_figure call returned k, figures[i] carries the figure
\* number i + 1 (i counted from 0), and to_json().total_count is the number
\* of add_figure calls.
C7_FigureNumbersCountCalls ==
    /\ \A k \in 1..Len(returned) : returned[k] = k
    /\ Len(figures) = Len(returned)
    /\ \A i \in 1..Len(figures) : figures[i].figure_number = i
    /\ to_json(Registry).total_count = Len(returned)

\* Three figures were registered
C7_Witness ==
    /\ Len(returned) = 3 /\ returned[3] = 3
    /\ figures[3].figure_number = 3 /\ to_json(Registry).total_count = 3

\* The annotation of the list that gives number n its entry (the last one)
LastWithNumber(annotations, n) ==
    annotations[CHOOSE k \in 1..Len(annotations) :
                    /\ annotations[k].number = n
                    /\ \A j \in (k + 1)..Len(annotations) : annotations[j].number # n]

\* The palette keys that may stand for the color: the name itself (any letter
\* case), the names of the palette whose hex is the color (any letter case),
\* and "teal" for every other value
CanonicalKeys(color) ==
    LET c == LowerStrip(color)
        names == {COLOR_PALETTE[i][1] : i \in {j \in 1..Len(COLOR_PALETTE) :
                                                 LowerStrip(COLOR_PALETTE[j][2]) = c}}
    IN  IF c \in PaletteNames THEN {c}
        ELSE IF names # {} THEN names
        ELSE {"teal"}

\* C17: the color_name that add_figure records for an annotation (the value
\* of _normalize_color on its color) is a canonical palette key: the name
\* itself for a palette name in any letter case, a palette key with that hex
\* for a palette hex in any letter case, and "teal" for every other value.
C17_NormalizedIsPaletteKey ==
    \A f \in DOMAIN color_map : \A n \in DOMAIN color_map[f] :
        color_map[f][n].color_name
            \in CanonicalKeys(LastWithNumber(figures[f].annotations, n).color)

\* The registry file holds what the registry holds now
SavedNow == registry_file = Some(json_load_dump(to_json(Registry)))

\* C14, as stated: the color_map loaded back from the saved file has the
\* figure keys and annotation keys of the registry's color_map (keys of the
\* registry are ints, keys of a loaded JSON object are strings) with the same
\* values, and the same total_count.
C14_RoundTripSameKeys ==
    SavedNow =>
        /\ {<<"int", ToString(f)>> : f \in DOMAIN color_map}
               = {<<"str", f>> : f \in DOMAIN registry_file[1].color_map[1]}
        /\ \A f \in DOMAIN color_map :
               /\ {<<"int", ToString(n)>> : n \in DOMAIN color_map[f]}
                      = {<<"str", n>> : n \in DOMAIN registry_file[1].color_map[1][ToString(f)]}
               /\ \A n \in DOMAIN color_map[f] :
                      registry_file[1].color_map[1][ToString(f)][ToString(n)] = color_map[f][n]
        /\ registry_file[1].total_count = to_json(Registry).total_count

\* C14, amended: the loaded color_map has, for every figure number and
\* annotation number of the registry's color_map, the same entry under the
\* decimal strings of the two numbers, and no other key; total_count is the
\* same.
C14_RoundTripStringKeys ==
    SavedNow =>
        /\ {ToString(f) : f \in DOMAIN color_map} = DOMAIN registry_file[1].color_map[1]
        /\ \A f \in DOMAIN color_map :
               /\ {ToString(n) : n \in DOMAIN color_map[f]}
                      = DOMAIN registry_file[1].color_map[1][ToString(f)]
               /\ \A n \in DOMAIN color_map[f] :
                      registry_file[1].color_map[1][ToString(f)][ToString(n)] = color_map[f][n]
        /\ registry_file[1].total_count = Len(figures)
        /\ registry_file[1].total_count = to_json(Registry).total_count

\* A registry with colors for two figures was saved and loaded
C14_Witness ==
    /\ SavedNow /\ Len(figures) = 3
    /\ DOMAIN registry_file[1].color_map[1] = {"1", "3"}
    /\ DOMAIN registry_file[1].color_map[1]["3"] = {"1", "2"}

(***************************************************************************)
(* Specification of one AnnotationColorManager                             *)
(***************************************************************************)
\* Most element identifiers the manager is asked about
MaxElements == 3

\* f"{img_stem}_{num}" for the callouts of one image
ElementIds == {<<1, num>> : num \in 1..MaxElements}

\* Suggested colors: none, names of PALETTE, other names of the color
\* palette, a name of no palette and a hex string
SuggestedColors == {"", "primary", "critical", "blue", "magenta", "#C00000"}

Descriptions == {"Primary action", "Save"}

ManagerInit ==
    /\ ManagerNew
    /\ ValidatorIdle /\ RegistryNew /\ DirectoryIdle /\ ParserNew /\ MatchIdle

\* color_manager.assign(element_id, suggested_color, description_text)
Assign(element_id, suggested_color, description_text) ==
    /\ \E a \in {assign([assigned |-> assigned, next_index |-> next_index],
                         element_id, suggested_color, description_text)} :
          /\ assigned' = a.manager.assigned
          /\ next_index' = a.manager.next_index
          /\ assign_call' = Some([element_id |-> element_id,
                                  suggested_color |-> suggested_color,
                                  description_text |-> description_text,
                                  entry |-> a.entry])
    /\ UNCHANGED <<annotations_file, preprocess, toolVars, expected, actual, matched,
                   consistencyVars,
                   validatorVars, registryVars, directoryVars, parserVars>>

\* color_manager.reset()
Reset ==
    /\ assigned' = EmptyDict /\ next_index' = 0
    /\ assign_call' = None
    /\ UNCHANGED <<annotations_file, preprocess, toolVars, expected, actual, matched,
                   consistencyVars,
                   validatorVars, registryVars, directoryVars, parserVars>>

ManagerNext ==
    \/ \E element_id \in ElementIds, suggested_color \in SuggestedColors,
          description_text \in Descriptions :
           Assign(element_id, suggested_color, description_text)
    \/ Reset

SpecManager == ManagerInit /\ [][ManagerNext]_vars

\* The step is a call of assign (a reset leaves no call behind)
AssignStep == assign_call' # None /\ <<assigned, next_index, assign_call>>' # <<assigned, next_index, assign_call>>

\* C18: assign is memoized per element identifier: a call of assign never
\* changes the entry of an identifier that has one, and a call for an
\* identifier that has an entry returns that entry, whatever suggested color
\* and description it passes, and leaves the assigned table and the
\* round-robin index unchanged.
C18_AssignIsMemoized ==
    [][AssignStep =>
          /\ \A id \in DOMAIN assigned : id \in DOMAIN assigned' /\ assigned'[id] = assigned[id]
          /\ assign_call'[1].element_id \in DOMAIN assigned =>
                 /\ assign_call'[1].entry = assigned[assign_call'[1].element_id]
                 /\ assigned' = assigned
                 /\ next_index' = next_index]_vars

\* A repeat call with another suggested color and description has returned
\* the entry of the first assignment
C18_Witness ==
    /\ assign_call # None
    /\ assign_call[1].entry.name # assign_call[1].suggested_color
    /\ assign_call[1].suggested_color \in {"primary", "critical"}
    /\ assign_call[1].entry.text # assign_call[1].description_text
    /\ assign_call[1].entry = assigned[assign_call[1].element_id]

\* C19: for a new element identifier, assign gives the element the suggested
\* color whenever the suggested name is a name of the color palette, without
\* advancing the round-robin index; otherwise it allocates round-robin: the
\* entry at index next_index mod 7 of the 7-entry palette, and the index
\* advances by one.
C19_SuggestedPaletteNameHonoured ==
    [][(AssignStep /\ assign_call'[1].element_id \notin DOMAIN assigned) =>
          LET c == assign_call'[1] IN
          IF c.suggested_color \in PaletteNames
          THEN /\ c.entry.name = c.suggested_color
               /\ c.entry.hex = PaletteHex(c.suggested_color)
               /\ next_index' = next_index
          ELSE /\ c.entry.name = PALETTE[(next_index % 7) + 1][1]
               /\ c.entry.hex = PALETTE[(next_index % 7) + 1][2]
               /\ next_index' = next_index + 1]_vars

(***************************************************************************)
(* Specification of one TextColorParser on one text                        *)
(***************************************************************************)
\* The lines a text is made of
Lines ==
    {<<"Figure", "1">>,
     <<"Click", "the", "(", "red", "callout", "1", ")", "button.">>,
     <<"Figure", "2">>,
     <<"(", "blue", "arrow", "2", ")", "shows...">>,
     <<"see", "the", "GOLD", "highlight", "near", "callout", "3", "(", "green", ")">>,
     <<"(", "teal", "marker", ")", "then", "warning", "circled-2">>,
     <<"figure", "0", "and", "Figure", "2", "select", "purple", "box", "0">>,
     <<"FIGURE", "3", "the", "orange", "label", "1", "circled-1">>}

\* Longest text, in lines
MaxLines == 4

ParserInit ==
    /\ text \in SeqsUpTo(Lines, MaxLines)
    /\ references = <<>> /\ by_figure = EmptyDict
    /\ current_figure = None /\ parsed = FALSE
    /\ ValidatorIdle /\ RegistryNew /\ ManagerNew /\ DirectoryIdle /\ MatchIdle

\* parser.parse_text(text)
ParseText ==
    /\ ~parsed
    /\ \E r \in {parse_text(text, Len(text))} :
           /\ references' = r.references
           /\ by_figure' = r.by_figure
           /\ current_figure' = r.current_figure
    /\ parsed' = TRUE
    /\ UNCHANGED <<text, validatorVars, registryVars, managerVars, directoryVars,
                   matchVars>>

ParserNext == ParseText

SpecParser == ParserInit /\ [][ParserNext]_vars

(***************************************************************************)
(* Properties of the parser                                                *)
(***************************************************************************)
\* The figure context of line l of the text: the number of the first figure
\* heading on the nearest line at or above l that has one
FigureContextAt(l) ==
    LET headed == {k \in 1..l : figure_match(text[k]) # None}
    IN  IF headed = {} THEN None
        ELSE figure_match(text[CHOOSE k \in headed : \A j \in headed : j <= k])

\* figure -> annotation number -> color of the last reference with that
\* figure and number, over the references whose index is in idx
ColorsOfReferences(idx) ==
    [f \in {references[i].figure[1] : i \in idx} |->
        [n \in {references[i].number[1] : i \in {j \in idx : references[j].figure[1] = f}} |->
            LET same == {i \in idx : references[i].figure[1] = f /\ references[i].number[1] = n}
            IN  references[CHOOSE i \in same : \A j \in same : j <= i].color]]

\* The text of the example
ExampleText ==
    <<<<"Figure", "1">>,
      <<"Click", "the", "(", "red", "callout", "1", ")", "button.">>,
      <<"Figure", "2">>,
      <<"(", "blue", "arrow", "2", ")", "shows...">>>>

\* C9, as stated: after parse_text every match of every pattern on a line is
\* a reference, each reference carries the figure context of its line, and
\* get_expected_colors is figure -> number -> color over the references that
\* have a figure and a number; on the example text it is
\* {1: {1: "red"}, 2: {2: "blue"}}.
C9_ExpectedColorsOfNumberedReferences ==
    parsed =>
        /\ \A i \in 1..Len(references) :
               references[i].figure = FigureContextAt(references[i].line)
        /\ \A l \in 1..Len(text) :
               Len(SelectSeq(references, LAMBDA r : r.line = l)) = Len(LineMatches(text[l]))
        /\ get_expected_colors(references, Len(references))
               = ColorsOfReferences({i \in 1..Len(references) :
                                        /\ references[i].figure # None
                                        /\ references[i].number # None})
        /\ text = ExampleText
               => get_expected_colors(references, Len(references))
                      = (1 :> (1 :> "red") @@ 2 :> (2 :> "blue"))

\* C9, amended: as C9, with get_expected_colors over the references whose
\* figure and number are both present and not 0.
C9_ExpectedColorsOfNonzeroReferences ==
    parsed =>
        /\ \A i \in 1..Len(references) :
               references[i].figure = FigureContextAt(references[i].line)
        /\ \A l \in 1..Len(text) :
               Len(SelectSeq(references, LAMBDA r : r.line = l)) = Len(LineMatches(text[l]))
        /\ get_expected_colors(references, Len(references))
               = ColorsOfReferences({i \in 1..Len(references) :
                                        /\ references[i].figure \notin {None, Some(0)}
                                        /\ references[i].number \notin {None, Some(0)}})
        /\ text = ExampleText
               => get_expected_colors(references, Len(references))
                      = (1 :> (1 :> "red") @@ 2 :> (2 :> "blue"))

\* The example text was parsed
C9_Witness ==
    /\ parsed /\ text = ExampleText
    /\ Len(references) = 2
    /\ references[1].figure = Some(1) /\ references[2].figure = Some(2)
    /\ references[2].pattern = "parenthetical"

(***************************************************************************)
(* Specification of ColorConsistencyValidator._colors_match on the color   *)
(* names its caller passes: lower-case names of the parser and the         *)
(* color_name values of the registry                                       *)
(***************************************************************************)
ColorNames == PaletteNames \cup {"#ff00ff", "unknown"}

ColorsInit ==
    /\ expected \in ColorNames /\ actual \in ColorNames
    /\ matched = None /\ ConsistencyIdle /\ CallIdle
    /\ ValidatorIdle /\ RegistryNew /\ ManagerNew /\ DirectoryIdle /\ ParserNew

\* self._colors_match(expected_color, actual_color)
ColorsMatch ==
    /\ matched = None
    /\ matched' = Some(colors_match(expected, actual))
    /\ UNCHANGED <<expected, actual, consistencyVars, callVars, validatorVars, registryVars,
                   managerVars, directoryVars, parserVars>>

ColorsNext == ColorsMatch

SpecColors == ColorsInit /\ [][ColorsNext]_vars

\* C10: _colors_match(expected, actual) is true exactly when the names are
\* identical or both in one of the classes {red, critical}, {blue, info},
\* {gold, warning, yellow}, {green, success}, {teal, primary}; it gives the
\* same with the arguments exchanged; gold matches warning and does not
\* match green.
C10_MatchIsClassMembership ==
    matched # None =>
        LET classes == {{"red", "critical"}, {"blue", "info"},
                        {"gold", "warning", "yellow"}, {"green", "success"},
                        {"teal", "primary"}}
        IN  /\ matched[1] = (\/ expected = actual
                             \/ \E class \in classes : {expected, actual} \subseteq class)
            /\ matched[1] = colors_match(actual, expected)
            /\ (expected = "gold" /\ actual = "warning") => matched[1]
            /\ (expected = "gold" /\ actual = "green") => ~matched[1]

\* gold was compared with warning and matched
C10_Witness ==
    expected = "gold" /\ actual = "warning" /\ matched = Some(TRUE)

(***************************************************************************)
(* Specification of validate_procedure.py on one document: the module's    *)
(* validate() and ColorConsistencyValidator.validate, each called once     *)
(***************************************************************************)
\* The lines a document is made of
DocLines ==
    {<<"OVERVIEW", "RELATED", "Revision", "History", "Date", "Updated:", "Department:">>,
     <<"Figure", "1", "(", "red", "callout", "1", ")">>,
     <<"Figure", "1", "(", "GOLD", "arrow", ")", "then", "(", "green", "callout", "3", ")">>,
     <<"(", "Figure", "2", ")", "callout", "2", "(", "teal", ")">>,
     <<"figure", "2", "(", "critical", "callout", "2", ")", "(", "blue", "indicator", "1", ")">>,
     <<"see", "the", "purple", "box", "2", "(", "primary", "number", "2", ")">>}

\* Longest document, in lines
MaxDocLines == 2

\* add_figure for each annotation list of a sequence, on a new registry
RECURSIVE RegistryOf(_, _)
RegistryOf(annotation_lists, k) ==
    IF k = 0 THEN [figures |-> <<>>, next_number |-> 1, color_map |-> EmptyDict]
    ELSE add_figure(RegistryOf(annotation_lists, k - 1), "login.png",
                    annotation_lists[k], <<>>).registry

\* The files at registry_path: none, a JSON file without color_map, and the
\* files FigureRegistry.save writes
RegistryFiles ==
    {None, Some([color_map |-> None])}
    \cup {Some(json_load_dump(to_json(RegistryOf(l, Len(l))))) :
             l \in {<<>>,
                    <<<<Callout(Pt(50, 50), 1, "Click Login", "red")>>>>,
                    <<<<Callout(Pt(30, 30), 1, "Open menu", "#2E74B5"),
                        Callout(Pt(70, 70), 2, "Save", "Warning")>>,
                      <<Highlight(Box(10, 10, 20, 20), "Totals", "#FF00FF"),
                        Callout(Pt(50, 50), 2, "", "")>>>>}}

FigureIndex(figure_numbers, total_annotations, coverage_pct) ==
    [figure_numbers |-> figure_numbers, total_figures |-> Len(figure_numbers),
     total_annotations |-> total_annotations, coverage_pct |-> coverage_pct]

Procedure(figures_exists, fig_index, doc_exists, check_colors, registry_given) ==
    [figures_exists |-> figures_exists, fig_index |-> fig_index, doc_exists |-> doc_exists,
     check_colors |-> check_colors, registry_given |-> registry_given]

\* The other arguments of validate() and the files they name
Procedures ==
    {Procedure(TRUE, FigureIndex(<<1, 2>>, 3, 100), TRUE, TRUE, TRUE),
     Procedure(FALSE, FigureIndex(<<1>>, 1, 100), TRUE, TRUE, TRUE),
     Procedure(TRUE, FigureIndex(<<1>>, 1, 100), FALSE, TRUE, TRUE),
     Procedure(TRUE, FigureIndex(<<>>, 0, 0), TRUE, TRUE, TRUE),
     Procedure(TRUE, FigureIndex(<<1>>, 0, 0), TRUE, TRUE, TRUE),
     Procedure(TRUE, FigureIndex(<<1, 2>>, 1, 50), TRUE, FALSE, TRUE),
     Procedure(TRUE, FigureIndex(<<1>>, 1, 100), TRUE, TRUE, FALSE)}

ConsistencyInit ==
    /\ document \in SeqsUpTo(DocLines, MaxDocLines)
    /\ registry_file \in RegistryFiles
    /\ procedure \in Procedures
    /\ color_result = None /\ validation = None
    /\ expected = "" /\ actual = "" /\ matched = None /\ CallIdle
    /\ ValidatorIdle /\ RegistryNew /\ ManagerNew /\ DirectoryIdle /\ ParserNew

\* ColorConsistencyValidator().validate(doc_content, registry_path)
ConsistencyValidate ==
    /\ color_result = None
    /\ color_result' = Some(consistency_validate(document, registry_file))
    /\ UNCHANGED <<document, registry_file, procedure, validation, expected, actual, matched,
                   callVars,
                   validatorVars, registryVars, managerVars, directoryVars,
                   parserVars>>

\* validate(doc_path, figures_path, registry_path, check_colors)
ValidateProcedure ==
    /\ validation = None
    /\ validation' = Some(validate(procedure, document, registry_file))
    /\ UNCHANGED <<document, registry_file, procedure, color_result, expected, actual, matched,
                   callVars,
                   validatorVars, registryVars, managerVars, directoryVars,
                   parserVars>>

ConsistencyNext == ConsistencyValidate \/ ValidateProcedure

SpecConsistency == ConsistencyInit /\ [][ConsistencyNext]_vars

\* The color names a and b are equivalent: identical or in one class
EquivalentColors(a, b) ==
    \/ a = b
    \/ \E class \in {{"red", "critical"}, {"blue", "info"}, {"gold", "warning", "yellow"},
                      {"green", "success"}, {"teal", "primary"}} : {a, b} \subseteq class

\* The triples validate compared, once it has returned from the comparison
ComparedTriples ==
    ExpectedTriples(color_result[1].expected[1], Len(color_result[1].expected[1]))

\* The entry of the registry file for a triple
EntryOf(t) == ActualEntry(registry_file[1].color_map[1], t.figure, t.annotation)

\* C11: when validate compares, every expected (figure, annotation) without
\* an entry in the color map has a "not found" warning and is in neither
\* matches nor mismatches; the mismatches are exactly the expected pairs with
\* an entry whose color_name is not equivalent to the expected color; and the
\* result is invalid exactly when there is a mismatch.
C11_NotFoundIsWarningOnly ==
    (color_result # None /\ color_result[1].expected \notin {None, Some(<<>>)}) =>
        LET r == color_result[1]
            listed(list, t) == \E i \in 1..Len(list) :
                                  list[i].figure = t.figure /\ list[i].annotation = t.annotation
        IN  /\ \A k \in 1..Len(ComparedTriples) :
                   LET t == ComparedTriples[k]
                   IN  /\ EntryOf(t) = None =>
                              /\ \E i \in 1..Len(r.warnings) :
                                     r.warnings[i] = [kind |-> "not found", figure |-> t.figure,
                                                      annotation |-> t.annotation,
                                                      expected |-> t.expected]
                              /\ ~listed(r.matches, t) /\ ~listed(r.mismatches, t)
                       /\ listed(r.mismatches, t)
                              <=> (/\ EntryOf(t) # None
                                   /\ ~EquivalentColors(t.expected, EntryOf(t)[1].color_name))
                       /\ listed(r.matches, t)
                              <=> (/\ EntryOf(t) # None
                                   /\ EquivalentColors(t.expected, EntryOf(t)[1].color_name))
            /\ r.is_valid <=> r.mismatches = <<>>
            /\ Len(r.errors) = Len(r.mismatches)

\* validate returned valid with a match and a "not found" warning
C11_Witness ==
    /\ color_result # None /\ color_result[1].expected \notin {None, Some(<<>>)}
    /\ color_result[1].is_valid /\ color_result[1].matches # <<>>
    /\ \E i \in 1..Len(color_result[1].warnings) :
           color_result[1].warnings[i].kind = "not found"

\* The registry file is absent, or has no color_map, or an empty one
NoColorMap ==
    \/ registry_file = None
    \/ registry_file[1].color_map = None
    \/ DOMAIN registry_file[1].color_map[1] = {}

\* C12: without a registry file or without a (non-empty) color_map,
\* ColorConsistencyValidator.validate returns valid, no errors and exactly one
\* "skipped" warning, with no match or mismatch recorded; and what validate()
\* returns as is_valid is what it returns with check_colors off, while the
\* color mismatches are among its messages.
C12_SkippedAndAdvisory ==
    /\ (color_result # None /\ NoColorMap) =>
           /\ color_result[1].is_valid /\ color_result[1].errors = <<>>
           /\ Len(color_result[1].warnings) = 1
           /\ color_result[1].warnings[1].kind = "skipped"
           /\ color_result[1].matches = <<>> /\ color_result[1].mismatches = <<>>
    /\ validation # None =>
           /\ validation[1].is_valid
                  = validate([procedure EXCEPT !.check_colors = FALSE], document,
                             registry_file).is_valid
           /\ (procedure.figures_exists /\ procedure.doc_exists
                /\ procedure.check_colors /\ procedure.registry_given) =>
                  \A i \in 1..Len(consistency_validate(document, registry_file).errors) :
                      \E j \in 1..Len(validation[1].messages) :
                          validation[1].messages[j]
                              = consistency_validate(document, registry_file).errors[i]

\* Without a registry file, ColorConsistencyValidator.validate skipped a
\* document that has color references, and validate() with check_colors on
\* returned valid with the "skipped" warning among its messages
C12_Witness ==
    /\ registry_file = None /\ parse_expected_colors(document) # <<>>
    /\ color_result # None /\ color_result[1].warnings = <<Skipped("no registry")>>
    /\ validation # None /\ validation[1].is_valid
    /\ procedure.check_colors /\ procedure.registry_given
    /\ \E j \in 1..Len(validation[1].messages) :
           validation[1].messages[j] = Skipped("no registry")

\* The dict of a two-level item sequence
AsNestedDict(items) ==
    [f \in {items[i][1] : i \in 1..Len(items)} |-> AsDict(ItemGet(items, f, <<>>))]

\* C13: _parse_expected_colors(text) is get_expected_colors() of the
\* TextColorParser after parse_text(text).
C13_ExpectedColorsAreTheParsers ==
    (color_result # None /\ color_result[1].expected # None) =>
        AsNestedDict(color_result[1].expected[1])
            = get_expected_colors(parse_text(document, Len(document)).references,
                                  Len(parse_text(document, Len(document)).references))

(***************************************************************************)
(* Specification of validate_annotations_preprocess on one file            *)
(***************************************************************************)
\* A circle and a label that carry a description
DescribedCircle == [Circle(Pt(40, 60), 5, "") EXCEPT !.description = "Status ring"]
DescribedLabel == [Label(Pt(60, 40), 5, "") EXCEPT !.description = "Field name"]

\* Entries of annotations.json
FileEntries ==
    {FileEntry(FALSE, TRUE, <<Callout(Pt(50, 50), 1, "Click Login", "")>>, TRUE),
     FileEntry(FALSE, TRUE, <<Circle(Pt(50, 50), 5, "")>>, TRUE),
     FileEntry(FALSE, TRUE, <<DescribedCircle, DescribedLabel>>, TRUE),
     FileEntry(FALSE, TRUE, <<Label(Pt(50, 50), 5, ""), Callout(Pt(20, 20), 2, "Open", "")>>,
               FALSE),
     FileEntry(FALSE, TRUE, <<Callout(Pt(3, 50), 1, "Near the edge", ""),
                              Callout(Pt(9, 58), 2, "Close by", ""),
                              DescribedCircle>>, TRUE),
     FileEntry(FALSE, TRUE, <<Callout(Pt(120, 50), 1, "Outside", "")>>, TRUE),
     FileEntry(FALSE, TRUE, <<Callout(Pt(50, 50), 0, "", "")>>, FALSE),
     FileEntry(FALSE, TRUE, <<Highlight(Box(90, 90, 20, 20), "Totals", "")>>, TRUE),
     FileEntry(FALSE, TRUE, <<Highlight(Box(110, 10, 20, 20), "", "")>>, TRUE),
     FileEntry(FALSE, TRUE, <<Arrow(Pt(20, 20), Pt(150, 50), "Go", "")>>, TRUE),
     FileEntry(FALSE, TRUE, <<Arrow(Pt(20, 20), Pt(50, 50), "", "")>>, TRUE),
     FileEntry(FALSE, TRUE, <<>>, FALSE),
     FileEntry(FALSE, FALSE, <<>>, FALSE),
     FileEntry(TRUE, FALSE, <<>>, FALSE)}

\* Most entries of one annotations.json
MaxFileImages == 2

\* The files validate_annotations_preprocess is called on; one does not exist
AnnotationFiles ==
    {[exists |-> FALSE, entries |-> <<>>]}
    \cup {[exists |-> TRUE, entries |-> e] : e \in SeqsUpTo(FileEntries, MaxFileImages)}

PreprocessInit ==
    /\ annotations_file \in AnnotationFiles
    /\ assign_call = None /\ preprocess = None /\ ToolsIdle
    /\ expected = "" /\ actual = "" /\ matched = None /\ ConsistencyIdle
    /\ ValidatorIdle /\ RegistryNew /\ ManagerNew /\ DirectoryIdle /\ ParserNew

\* validate_annotations_preprocess(annotations_path)
ValidateAnnotationsPreprocess ==
    /\ preprocess = None
    /\ preprocess' = Some(validate_annotations_preprocess(annotations_file))
    /\ UNCHANGED <<assign_call, annotations_file, toolVars, expected, actual, matched,
                   consistencyVars,
                   validatorVars, registryVars, managerVars, directoryVars,
                   parserVars>>

PreprocessNext == ValidateAnnotationsPreprocess

SpecPreprocess == PreprocessInit /\ [][PreprocessNext]_vars

\* A structural error: no description on a callout, arrow or highlight, or a
\* coordinate outside 0..100
StructuralError(ann) ==
    \/ ann.type \in {"callout", "arrow", "highlight"} /\ ann.description = ""
    \/ ann.type \in {"callout", "circle", "label"}
          /\ (~InPercentRange(ann.position.x) \/ ~InPercentRange(ann.position.y))
    \/ ann.type = "highlight"
          /\ (~InPercentRange(ann.bbox.x) \/ ~InPercentRange(ann.bbox.y))
    \/ ann.type = "arrow"
          /\ (~InPercentRange(ann.position.x) \/ ~InPercentRange(ann.position.y)
              \/ ~InPercentRange(ann.end.x) \/ ~InPercentRange(ann.end.y))

\* C20: on an annotations.json that exists, validate_annotations_preprocess
\* returns is_valid = false exactly when an annotation has a structural
\* error (no description on a callout, arrow or highlight, or a coordinate
\* outside 0..100): a circle or label without description and the geometric
\* issues are no errors.
C20_ErrorsAreTheStructuralErrors ==
    (preprocess # None /\ annotations_file.exists) =>
        (preprocess[1].is_valid
            <=> ~\E k \in 1..Len(annotations_file.entries) :
                   /\ ~annotations_file.entries[k].is_meta
                   /\ annotations_file.entries[k].is_list
                   /\ \E i \in 1..Len(annotations_file.entries[k].annotations) :
                         StructuralError(annotations_file.entries[k].annotations[i]))

(***************************************************************************)
(* Specification of one call of a geometry utility                         *)
(***************************************************************************)
\* Percentages handed to percent_to_pixels (some lie outside 0..100)
Percentages == 0..120

\* Largest dimension of the dense range of image sizes
MaxDimension == 160

\* Image widths and heights
Dimensions == (0..MaxDimension) \cup {200, 1000, 1150}

PixelCalls ==
    {[op |-> "percent_to_pixels", percent |-> p, dimension |-> d] :
        p \in Percentages, d \in Dimensions}

\* Widest image handed to calculate_dynamic_radius
MaxWidth == 600

RadiusCalls ==
    {[op |-> "calculate_dynamic_radius", image_width |-> w] : w \in 0..MaxWidth}

\* Points, radii, image sizes and margins handed to clamp_to_bounds; some of
\* the images are smaller than the annotation
ClampCalls ==
    {[op |-> "clamp_to_bounds", x |-> x, y |-> y, radius |-> r, width |-> w,
      height |-> h, margin |-> m] :
        x \in {-10, 0, 10, 19, 20, 50, 80, 81, 95, 110}, y \in {0, 30, 100},
        r \in {0, 14, 28}, w \in {40, 100}, h \in {40, 100}, m \in {0, 5}}

\* Callouts handed to draw_callout and to a new AnnotationValidator
CalloutCalls ==
    {[op |-> "draw_callout", position |-> Pt(px, py), width |-> size[1],
      height |-> size[2]] :
        px \in Percentages, py \in {0, 7, 50, 100},
        size \in {<<1000, 1000>>, <<200, 40>>, <<150, 150>>, <<30, 30>>}}

\* Callouts handed to draw_callout together with an adjusted_position in
\* pixels that the caller supplies
AdjustedCalloutCalls ==
    {[op |-> "draw_callout_adjusted", position |-> Pt(px, 50), width |-> size[1],
      height |-> size[2], adjusted_position |-> [x |-> x, y |-> y]] :
        px \in {0, 50}, x \in {0, 10, 32, 33, 500}, y \in {0, 33, 500},
        size \in {<<1000, 1000>>, <<200, 40>>}}

\* Callouts handed to validate_and_adjust of an AnnotationValidator, after
\* `earlier` equal callouts, and then to draw_callout together with the
\* adjusted_position of the result
ValidatedCalloutCalls ==
    {[op |-> "draw_callout_validated", position |-> Pt(px, py), width |-> size[1],
      height |-> size[2], earlier |-> n] :
        px \in {0, 1, 3, 4, 50, 96, 97, 100, 120}, py \in {0, 7, 50, 100},
        size \in {<<1000, 1000>>, <<200, 40>>, <<150, 150>>, <<30, 30>>},
        n \in 0..1}

\* Highlights handed to validate_annotations_preprocess and to a new
\* AnnotationValidator; some reach past the right or the bottom edge
HighlightCalls ==
    {[op |-> "highlight", bbox |-> Box(x, y, w, h), width |-> size[1],
      height |-> size[2]] :
        x \in {0, 40, 81, 90, 100, 110}, y \in {0, 40, 90, 99},
        w \in {1, 10, 20, 101}, h \in {1, 11, 20},
        size \in {<<1000, 1000>>, <<200, 40>>, <<30, 30>>, <<8, 8>>}}

GeometryCalls ==
    PixelCalls \cup RadiusCalls \cup ClampCalls \cup CalloutCalls \cup AdjustedCalloutCalls
        \cup ValidatedCalloutCalls \cup HighlightCalls

GeometryInit ==
    /\ geometry_call \in GeometryCalls /\ geometry_result = None
    /\ ReviewIdle /\ ReportIdle
    /\ assign_call = None /\ annotations_file = <<>> /\ preprocess = None
    /\ expected = "" /\ actual = "" /\ matched = None /\ ConsistencyIdle
    /\ ValidatorIdle /\ RegistryNew /\ ManagerNew /\ DirectoryIdle /\ ParserNew

\* What is left alone by a call of a geometry utility
otherThanGeometry ==
    <<geometry_call, reviewVars, reportVars, assign_call, annotations_file, preprocess, expected, actual, matched,
      consistencyVars, validatorVars, registryVars, managerVars, directoryVars,
      parserVars>>

\* percent_to_pixels(percent, dimension), in the skill's screenshot_processor.py
\* and in the copy src/screenshot_processor.py
PercentToPixels ==
    /\ geometry_call.op = "percent_to_pixels" /\ geometry_result = None
    /\ geometry_result' =
          Some([skill |-> percent_to_pixels(geometry_call.percent, geometry_call.dimension),
                copy |-> percent_to_pixels_int(geometry_call.percent,
                                               geometry_call.dimension)])
    /\ UNCHANGED otherThanGeometry

\* calculate_dynamic_radius(image_width)
CalculateDynamicRadius ==
    /\ geometry_call.op = "calculate_dynamic_radius" /\ geometry_result = None
    /\ geometry_result' = Some(calculate_dynamic_radius(geometry_call.image_width))
    /\ UNCHANGED otherThanGeometry

\* clamp_to_bounds(x, y, radius, width, height, margin), and clamp_to_bounds
\* on the point it returned
ClampToBounds ==
    /\ geometry_call.op = "clamp_to_bounds" /\ geometry_result = None
    /\ \E once \in {clamp_to_bounds(geometry_call.x, geometry_call.y, geometry_call.radius,
                                     geometry_call.width, geometry_call.height,
                                     geometry_call.margin)} :
          geometry_result' =
              Some([once |-> once,
                    twice |-> clamp_to_bounds(once[1], once[2], geometry_call.radius,
                                              geometry_call.width, geometry_call.height,
                                              geometry_call.margin)])
    /\ UNCHANGED otherThanGeometry

\* draw_callout(position) without adjusted_position on an image, and
\* AnnotationValidator(width, height).validate_and_adjust on the same callout
DrawCallout ==
    /\ geometry_call.op = "draw_callout" /\ geometry_result = None
    /\ \E ann \in {Callout(geometry_call.position, 1, "Click Login", "")} :
          geometry_result' =
              Some([drawn |-> draw_callout(1, ann, geometry_call.width,
                                           geometry_call.height, None)[1],
                    registered |-> validate_and_adjust(<<>>, ann, geometry_call.width,
                                                       geometry_call.height).placed[1]])
    /\ UNCHANGED otherThanGeometry

\* draw_callout(position, adjusted_position=...) with pixels of the caller
DrawCalloutAdjusted ==
    /\ geometry_call.op = "draw_callout_adjusted" /\ geometry_result = None
    /\ \E ann \in {Callout(geometry_call.position, 1, "Click Login", "")} :
          geometry_result' =
              Some([drawn |-> draw_callout(1, ann, geometry_call.width, geometry_call.height,
                                           Some(geometry_call.adjusted_position))[1]])
    /\ UNCHANGED otherThanGeometry

\* What validate_and_adjust returns for the callout and draw_callout draws
\* from adjusted_position of that result (None when nothing was adjusted)
ValidatedAndDrawn(ann, w, h, validated) ==
    [validated |-> validated,
     drawn |-> draw_callout(1, ann, w, h, validated.adjusted_position)[1]]

\* AnnotationValidator(width, height).validate_and_adjust on `earlier` equal
\* callouts and then on the callout, and draw_callout(position,
\* adjusted_position=result["adjusted_position"])
DrawCalloutValidated ==
    /\ geometry_call.op = "draw_callout_validated" /\ geometry_result = None
    /\ \E ann \in {Callout(geometry_call.position, 1, "Click Login", "")} :
       \E before \in {IF geometry_call.earlier = 0 THEN <<>>
                      ELSE validate_and_adjust(<<>>, ann, geometry_call.width,
                                               geometry_call.height).placed} :
          geometry_result' =
              Some(ValidatedAndDrawn(ann, geometry_call.width, geometry_call.height,
                                     validate_and_adjust(before, ann, geometry_call.width,
                                                         geometry_call.height).result))
    /\ UNCHANGED otherThanGeometry

\* validate_annotations_preprocess on a file with one image that holds the
\* highlight, and AnnotationValidator(width, height).validate_and_adjust on
\* the same highlight
ValidateHighlight ==
    /\ geometry_call.op = "highlight" /\ geometry_result = None
    /\ \E ann \in {Highlight(geometry_call.bbox, "Totals", "")} :
          geometry_result' =
              Some([preprocess |->
                        validate_annotations_preprocess(
                            [exists |-> TRUE,
                             entries |-> <<FileEntry(FALSE, TRUE, <<ann>>, TRUE)>>]),
                    validated |-> validate_and_adjust(<<>>, ann, geometry_call.width,
                                                      geometry_call.height).result])
    /\ UNCHANGED otherThanGeometry

GeometryNext ==
    \/ PercentToPixels
    \/ CalculateDynamicRadius
    \/ ClampToBounds
    \/ DrawCallout
    \/ DrawCalloutAdjusted
    \/ DrawCalloutValidated
    \/ ValidateHighlight

SpecGeometry == GeometryInit /\ [][GeometryNext]_vars

\* v is an integer nearest to n/den
NearestTo(v, n, den) == 2 * Abs(den * v - n) <= den

\* C21: percent_to_pixels(p, dim) is (p/100)*dim rounded to the nearest
\* integer, in every copy of the screenshot processor: the value returned by
\* the skill's percent_to_pixels and the value returned by the copy's are both
\* an integer nearest to p*dim/100.
C21_EveryCopyRoundsToNearest ==
    (geometry_result # None /\ geometry_call.op = "percent_to_pixels") =>
        /\ NearestTo(geometry_result[1].skill,
                     geometry_call.percent * geometry_call.dimension, 100)
        /\ NearestTo(geometry_result[1].copy,
                     geometry_call.percent * geometry_call.dimension, 100)

\* C22: for every percentage p in 0..100 and every dimension d >= 0,
\* percent_to_pixels(p, d) lies in 0..d and is not smaller than
\* percent_to_pixels(p - 1, d) (so it is monotonic non-decreasing in p), in
\* both copies of the screenshot processor.
C22_PixelsInRangeAndMonotonic ==
    (/\ geometry_result # None /\ geometry_call.op = "percent_to_pixels"
     /\ geometry_call.percent <= 100) =>
        /\ 0 <= geometry_result[1].skill
        /\ geometry_result[1].skill <= geometry_call.dimension
        /\ 0 <= geometry_result[1].copy
        /\ geometry_result[1].copy <= geometry_call.dimension
        /\ geometry_call.percent >= 1 =>
              /\ percent_to_pixels(geometry_call.percent - 1, geometry_call.dimension)
                    <= geometry_result[1].skill
              /\ percent_to_pixels_int(geometry_call.percent - 1, geometry_call.dimension)
                    <= geometry_result[1].copy

\* 100 percent of a 1000 pixel dimension was converted to the last pixel
C22_Witness ==
    /\ geometry_call # None /\ geometry_call.op = "percent_to_pixels"
    /\ geometry_call.percent = 100 /\ geometry_call.dimension = 1000
    /\ geometry_result # None /\ geometry_result[1].skill = 1000

\* C23: calculate_dynamic_radius(w) lies in 14..28, is round(0.055 * w)
\* (an integer nearest to 11w/200) whenever that value is within 14..28, and
\* is not smaller than calculate_dynamic_radius(w - 1).
C23_RadiusClampedAndMonotonic ==
    (geometry_result # None /\ geometry_call.op = "calculate_dynamic_radius") =>
        /\ 14 <= geometry_result[1] /\ geometry_result[1] <= 28
        /\ RoundHalfEven(11 * geometry_call.image_width, 200) \in 14..28 =>
              /\ geometry_result[1] = RoundHalfEven(11 * geometry_call.image_width, 200)
              /\ NearestTo(geometry_result[1], 11 * geometry_call.image_width, 200)
        /\ geometry_call.image_width >= 1 =>
              calculate_dynamic_radius(geometry_call.image_width - 1) <= geometry_result[1]

\* The radius of a 300 pixel wide image is round(16.5) = 16
C23_Witness ==
    /\ geometry_call # None /\ geometry_call.op = "calculate_dynamic_radius"
    /\ geometry_call.image_width = 300
    /\ geometry_result = Some(16)

\* C24, as stated: clamp_to_bounds applied to its own result returns the
\* same point, and a callout drawn by draw_callout, with or without
\* adjusted_position, never has x - radius < margin (the default margin 5).
C24_ClampIdempotentAndCalloutInside ==
    /\ (geometry_result # None /\ geometry_call.op = "clamp_to_bounds") =>
          geometry_result[1].twice = geometry_result[1].once
    /\ (/\ geometry_result # None
        /\ geometry_call.op \in {"draw_callout", "draw_callout_adjusted",
                                 "draw_callout_validated"}) =>
          geometry_result[1].drawn.x - geometry_result[1].drawn.radius >= 5

\* C24, amended: clamp_to_bounds applied to its own result returns the same
\* point; a callout that draw_callout draws without adjusted_position, or
\* with the adjusted_position an AnnotationValidator of the same image
\* returned for it, never has x - radius < margin; and the pixels of any
\* other adjusted_position are drawn as supplied, without a clamp.
C24_ClampIdempotentAndOwnCalloutInside ==
    /\ (geometry_result # None /\ geometry_call.op = "clamp_to_bounds") =>
          geometry_result[1].twice = geometry_result[1].once
    /\ (geometry_result # None /\ geometry_call.op = "draw_callout") =>
          geometry_result[1].drawn.x - geometry_result[1].drawn.radius >= 5
    /\ (geometry_result # None /\ geometry_call.op = "draw_callout_validated") =>
          /\ geometry_result[1].drawn.x - geometry_result[1].drawn.radius >= 5
          /\ geometry_result[1].validated.adjusted =>
                /\ geometry_result[1].drawn.x = geometry_result[1].validated.adjusted_position[1].x
                /\ geometry_result[1].drawn.y = geometry_result[1].validated.adjusted_position[1].y
    /\ (geometry_result # None /\ geometry_call.op = "draw_callout_adjusted") =>
          /\ geometry_result[1].drawn.x = geometry_call.adjusted_position.x
          /\ geometry_result[1].drawn.y = geometry_call.adjusted_position.y

\* A callout at the left edge of a 1000 pixel wide image, validated after an
\* equal one: the validator clamped it to (33, 33) and pushed it off the
\* earlier callout to (99, 99), and draw_callout drew it there, radius 28
C24_Witness ==
    /\ geometry_call # None /\ geometry_call.op = "draw_callout_validated"
    /\ geometry_call.position = Pt(0, 0) /\ geometry_call.width = 1000
    /\ geometry_call.earlier = 1
    /\ geometry_result # None
    /\ geometry_result[1].validated.adjusted
    /\ geometry_result[1].drawn.x = 99 /\ geometry_result[1].drawn.y = 99
    /\ geometry_result[1].drawn.radius = 28

\* C27: for a callout that collides with nothing, the position and radius
\* that a new AnnotationValidator registers equal the position and radius
\* that draw_callout computes without adjusted_position.
C27_ValidatorAndRendererAgree ==
    (geometry_result # None /\ geometry_call.op = "draw_callout") =>
        /\ geometry_result[1].registered.x = geometry_result[1].drawn.x
        /\ geometry_result[1].registered.y = geometry_result[1].drawn.y
        /\ geometry_result[1].registered.radius = geometry_result[1].drawn.radius

\* A callout at the left edge of a 1000 pixel wide image: both paths clamp
\* it to x = 33 with radius 28
C27_Witness ==
    /\ geometry_call # None /\ geometry_call.op = "draw_callout"
    /\ geometry_call.position.x = 0 /\ geometry_call.width = 1000
    /\ geometry_result # None
    /\ geometry_result[1].drawn.x = 33 /\ geometry_result[1].registered.x = 33
    /\ geometry_result[1].drawn.radius = 28

\* The highlight of the call reaches past the right or the bottom edge
ExtendsPastImage(bbox) == bbox.x + bbox.w > 100 \/ bbox.y + bbox.h > 100

\* C25: a highlight whose bbox extends past the image (x + w > 100 or
\* y + h > 100) produces a bounds warning and not an error:
\* validate_annotations_preprocess adds the warning, and its only errors are
\* those of a corner outside 0..100; validate_and_adjust returns an
\* "Out of bounds" warning with adjusted = true, valid = true and no error.
C25_OverflowingHighlightWarns ==
    (/\ geometry_result # None /\ geometry_call.op = "highlight"
     /\ ExtendsPastImage(geometry_call.bbox)) =>
        /\ \E i \in DOMAIN geometry_result[1].preprocess.warnings :
              geometry_result[1].preprocess.warnings[i].kind = "highlight extends"
        /\ \A i \in DOMAIN geometry_result[1].preprocess.errors :
              /\ geometry_result[1].preprocess.errors[i].kind = "highlight position"
              /\ ~(InPercentRange(geometry_call.bbox.x) /\ InPercentRange(geometry_call.bbox.y))
        /\ \E i \in DOMAIN geometry_result[1].validated.warnings :
              /\ geometry_result[1].validated.warnings[i].kind = "bounds"
              /\ geometry_result[1].validated.warnings[i].edge
                     \in {"left", "right", "top", "bottom"}
        /\ geometry_result[1].validated.adjusted
        /\ geometry_result[1].validated.adjusted_position # None
        /\ geometry_result[1].validated.valid
        /\ geometry_result[1].validated.errors = <<>>

\* bbox {x: 90, y: 90, w: 20, h: 20} on a 1000x1000 image: the preprocess
\* pass is valid with the warning, the validator moves (1000, 1000) to
\* (895, 895)
C25_Witness ==
    /\ geometry_call # None /\ geometry_call.op = "highlight"
    /\ geometry_call.bbox = Box(90, 90, 20, 20)
    /\ geometry_call.width = 1000 /\ geometry_call.height = 1000
    /\ geometry_result # None
    /\ geometry_result[1].preprocess.is_valid
    /\ geometry_result[1].preprocess.warnings
           = <<PreMessage("highlight extends", 1, 0, "", 90, 90)>>
    /\ geometry_result[1].validated.warnings = <<Warning("bounds", "right", 0)>>
    /\ geometry_result[1].validated.adjusted_position = Some(Position(895, 895, 100))

(***************************************************************************)
(* Collision resolution of validate_and_adjust                             *)
(***************************************************************************)
\* The displacement that the neighbour p adds is the vector that takes the
\* center <<x, y>> to the point at distance min_distance + 5 from p on the
\* ray from p through <<x, y>> (the unit vector away from p, times
\* overlap + 5), or (overlap + 5, overlap + 5) when the centers coincide.
\* Checked in hundredths of a pixel, <<px, py>> being the displacement in
\* hundredths.
PushPointsAwayBy(vx, vy, reach, px, py) ==
    IF vx = 0 /\ vy = 0 THEN px = 100 * reach /\ py = 100 * reach
    ELSE /\ px * vx >= 0 /\ py * vy >= 0
         /\ Abs(px * vy - py * vx) <= 2 * (Abs(vx) + Abs(vy))
         /\ Abs((px + 100 * vx) * (px + 100 * vx) + (py + 100 * vy) * (py + 100 * vy)
                - 10000 * reach * reach) <= 600 * reach

\* The float a in hundredths
Hundredths(a) == FloatRound(FloatMul(a, FloatOf(100)))

PushPointsAwayAt(vx, vy, reach, d) ==
    PushPointsAwayBy(vx, vy, reach, Hundredths(d.dx), Hundredths(d.dy))

PushPointsAway(x, y, col) ==
    PushPointsAwayAt(x - col.placed.x, y - col.placed.y, col.required + 5,
                     CollisionPush(x, y, col))

HasWarning(result, kind) ==
    \E n \in 1..Len(result.warnings) : result.warnings[n].kind = kind

\* The position after the bounds check of the call that returned result
BoundsChecked(result, w, h) ==
    IF HasWarning(result, "bounds")
    THEN clamp_to_bounds(result.original_position.x, result.original_position.y,
                         result.original_position.radius, w, h, margin)
    ELSE <<result.original_position.x, result.original_position.y>>

\* The registered record is the one pass of the collision resolution on the
\* position c, given the collisions `neighbours` of c with the records placed
\* before
SinglePassFrom(c, radius, neighbours, result, registered, w, h) ==
    /\ registered.radius = radius
    /\ neighbours = <<>> =>
          /\ ~HasWarning(result, "collision")
          /\ <<registered.x, registered.y>> = c
    /\ neighbours # <<>> =>
          /\ \E n \in 1..Len(result.warnings) :
                result.warnings[n] = Warning("collision", "", Len(neighbours))
          /\ result.adjusted
          /\ result.adjusted_position = Some(Position(registered.x, registered.y, radius))
          /\ \A i \in 1..Len(neighbours) : PushPointsAway(c[1], c[2], neighbours[i])
          /\ <<registered.x, registered.y>>
                = Displaced(c[1], c[2], radius, SumPush(c[1], c[2], neighbours),
                            w, h)

\* The collisions of the position c with the records `hits`
CollisionsOf(hits, c, radius) ==
    [i \in 1..Len(hits) |-> CollisionWith(c[1], c[2], radius, hits[i], 5)]

\* `before` are the records placed before the call
SinglePass(before, result, registered, w, h) ==
    SinglePassFrom(BoundsChecked(result, w, h), result.original_position.radius,
                   CollisionsOf(SelectSeq(before,
                                          LAMBDA p : Collides(BoundsChecked(result, w, h)[1],
                                                              BoundsChecked(result, w, h)[2],
                                                              result.original_position.radius,
                                                              p, 5)),
                                BoundsChecked(result, w, h),
                                result.original_position.radius),
                   result, registered, w, h)

\* C26: collision resolution is a single pass: the registered position is
\* the bounds-checked position plus the sum, over the placed records it
\* collides with, of the unit vector away from the record times overlap + 5
\* (the fixed push (overlap + 5, overlap + 5) for a coinciding center),
\* rounded and then clamped; nothing is checked or adjusted after that.
C26_CollisionResolutionIsOnePass ==
    /\ call.op = "validate_and_adjust" =>
          SinglePass(SubSeq(placed_annotations, 1, Len(placed_annotations) - 1), results,
                     placed_annotations[Len(placed_annotations)], width, height)
    /\ call.op = "validate_all" =>
          \A j \in 1..Len(placed_annotations) :
              SinglePass(SubSeq(placed_annotations, 1, j - 1),
                         results.annotations[j].result, placed_annotations[j],
                         width, height)

\* validate_all registered a third record that was pushed away from two
\* placed records and still collides with one of them
C26_Witness ==
    /\ call.op = "validate_all" /\ Len(placed_annotations) = 3
    /\ \E n \in 1..Len(results.annotations[3].result.warnings) :
           results.annotations[3].result.warnings[n] = Warning("collision", "", 2)
    /\ \E i \in 1..2 :
           Collides(placed_annotations[3].x, placed_annotations[3].y,
                    placed_annotations[3].radius, placed_annotations[i], 5)

(***************************************************************************)
(* The registry's color map against the canvas                             *)
(***************************************************************************)
\* C28: for every numbered annotation of a figure registered by
\* process_directory, the hex recorded in the registry color_map is the
\* color the renderer drew for that annotation on the image, also when the
\* descriptor omits the color and the renderer uses its default.
C28_RegistryColorIsDrawnColor ==
    \A i \in 1..Len(canvas) : \A d \in 1..Len(canvas[i]) :
        LET ann == EffectiveAnnotations(image_files[i])[canvas[i][d].index]
        IN  ann.number # 0 =>
                /\ i \in DOMAIN color_map
                /\ ann.number \in DOMAIN color_map[i]
                /\ color_map[i][ann.number].hex = canvas[i][d].color

(***************************************************************************)
(* main with --review: guided_review_workflow, then process_directory on   *)
(* the approved map                                                        *)
(***************************************************************************)
\* Most images of the input directory, entries of annotations_map and lines
\* on stdin
MaxReviewImages == 2
MaxEntries == 2
MaxResponses == 3

\* The image stems: stem i is the i-th image of the input directory, and a
\* stem beyond the directory has no source file
Stems == 1..(MaxReviewImages + 1)

\* The annotation list annotations_map holds for a stem
AnnotationsOfStem(stem) ==
    IF stem % 2 = 1
    THEN <<Callout(Pt(30, 30), 1, "Open menu", "#C00000")>>
    ELSE <<Callout(Pt(70, 70), 1, "Save", "#2E74B5"),
           Highlight(Box(10, 10, 20, 20), "Totals", "#FFC000")>>

MapEntry(stem) == [stem |-> stem, annotations |-> AnnotationsOfStem(stem)]

\* annotations_map (not empty, or main does not review): items in file order
AnnotationMaps ==
    {m \in SeqsUpTo({MapEntry(stem) : stem \in Stems}, MaxEntries) :
        /\ m # <<>>
        /\ \A i, j \in 1..Len(m) : i # j => m[i].stem # m[j].stem}

\* The lines typed on stdin, followed by the end of the file
ResponseLines == {"", "Y", " N", "a", "q", "ok"}

\* The suffixes of the files process_directory globs
supported_extensions ==
    <<".png", ".jpg", ".jpeg", ".gif", ".PNG", ".JPG", ".JPEG", ".GIF">>

\* The suffixes guided_review_workflow tries for the source image of a stem
review_extensions == <<".png", ".jpg", ".jpeg", ".PNG", ".JPG">>

\* The image files of the input directory, sorted by name: the file at
\* position i is named by the stem i and its suffix
InputDirectories ==
    SeqsUpTo({[w |-> 1000, h |-> 1000, readable |-> TRUE,
               suffix |-> supported_extensions[k]] :
                  k \in 1..Len(supported_extensions)},
             MaxReviewImages)

\* candidate.exists() for one of the suffixes the review tries
SourceFound(input_dir, stem) ==
    /\ stem <= Len(input_dir)
    /\ \E k \in 1..Len(review_extensions) : input_dir[stem].suffix = review_extensions[k]

ReviewCalls ==
    {[annotations_map |-> m, input_dir |-> d, stdin |-> l] :
        m \in AnnotationMaps, d \in InputDirectories,
        l \in SeqsUpTo(ResponseLines, MaxResponses)}

\* What the if/elif chain of the prompt loop makes of a line
Answer(line) ==
    LET response == LowerStrip(line)
    IN  CASE response \in {"", "y", "yes"} -> "approve"
          [] response \in {"n", "no"} -> "skip"
          [] response \in {"a", "all"} -> "all"
          [] response \in {"q", "quit"} -> "quit"
          [] OTHER -> "invalid"

\* The while loop of the prompt after k lines were read: the answer it
\* leaves with ("eof" when input() raises EOFError) and the lines read then
RECURSIVE Prompt(_, _)
Prompt(stdin, k) ==
    IF k >= Len(stdin) THEN [answer |-> "eof", read |-> k]
    ELSE IF Answer(stdin[k + 1]) = "invalid" THEN Prompt(stdin, k + 1)
    ELSE [answer |-> Answer(stdin[k + 1]), read |-> k + 1]

\* The state of guided_review_workflow
ReviewState(n, read, app, all, asked, st) ==
    [reviewed |-> n, lines_read |-> read, approved |-> app, approve_all |-> all,
     prompted |-> asked, status |-> st]

\* The body of the for loop for one entry, p being the outcome of the prompt
ReviewStep(entry, source_found, p) ==
    IF ~source_found
    THEN ReviewState(reviewed + 1, lines_read, approved, approve_all, prompted, "review")
    ELSE IF approve_all
    THEN ReviewState(reviewed + 1, lines_read, Append(approved, entry), TRUE, prompted,
                     "review")
    ELSE IF p.answer \in {"approve", "all"}
    THEN ReviewState(reviewed + 1, p.read, Append(approved, entry), p.answer = "all",
                     Append(prompted, entry.stem), "review")
    ELSE IF p.answer = "skip"
    THEN ReviewState(reviewed + 1, p.read, approved, FALSE, Append(prompted, entry.stem),
                     "review")
    ELSE ReviewState(reviewed, p.read, approved, FALSE, Append(prompted, entry.stem),
                     "reviewed")

ReviewInit ==
    /\ review_call \in ReviewCalls
    /\ reviewed = 0 /\ lines_read = 0 /\ approved = <<>> /\ approve_all = FALSE
    /\ prompted = <<>>
    /\ image_files = <<>> /\ processed = 0 /\ canvas = <<>> /\ status = "review"
    /\ GeometryIdle /\ ReportIdle
    /\ assign_call = None /\ annotations_file = <<>> /\ preprocess = None
    /\ expected = "" /\ actual = "" /\ matched = None /\ ConsistencyIdle
    /\ ValidatorIdle /\ RegistryNew /\ ManagerNew /\ ParserNew

otherThanReview ==
    <<geometryVars, reportVars, assign_call, annotations_file, preprocess, expected, actual,
      matched, consistencyVars, validatorVars, registryVars, managerVars,
      parserVars>>

\* One iteration of the for loop of guided_review_workflow; on "q" or on the
\* end of stdin the function returns
ReviewEntry ==
    /\ status = "review" /\ reviewed < Len(review_call.annotations_map)
    /\ \E next \in {ReviewStep(review_call.annotations_map[reviewed + 1],
                               SourceFound(review_call.input_dir,
                                           review_call.annotations_map[reviewed + 1].stem),
                               Prompt(review_call.stdin, lines_read))} :
          /\ reviewed' = next.reviewed
          /\ lines_read' = next.lines_read
          /\ approved' = next.approved
          /\ approve_all' = next.approve_all
          /\ prompted' = next.prompted
          /\ status' = next.status
    /\ UNCHANGED <<review_call, image_files, processed, canvas, otherThanReview>>

\* The for loop is over: guided_review_workflow returns approved
ReviewReturns ==
    /\ status = "review" /\ reviewed = Len(review_call.annotations_map)
    /\ status' = "reviewed"
    /\ UNCHANGED <<reviewVars, image_files, processed, canvas, otherThanReview>>

\* approved.get(img_stem, [])
ApprovedAnnotations(stem) ==
    IF \E i \in 1..Len(approved) : approved[i].stem = stem
    THEN approved[CHOOSE i \in 1..Len(approved) : approved[i].stem = stem].annotations
    ELSE <<>>

\* main calls process_directory(input_dir, output_dir, approved_annotations,
\* registry): the images of the directory, each with its entry of the
\* approved map; without an image process_directory returns at once
ProcessApproved ==
    /\ status = "reviewed"
    /\ image_files' =
          [i \in 1..Len(review_call.input_dir) |->
              [w |-> review_call.input_dir[i].w, h |-> review_call.input_dir[i].h,
               readable |-> review_call.input_dir[i].readable,
               annotations |-> ApprovedAnnotations(i)]]
    /\ status' = IF review_call.input_dir = <<>> THEN "done" ELSE "running"
    /\ UNCHANGED <<reviewVars, processed, canvas, otherThanReview>>

ReviewNext ==
    \/ ReviewEntry
    \/ ReviewReturns
    \/ ProcessApproved
    \/ ProcessImage
    \/ ProcessImageRaises
    \/ DirectoryReturns

SpecReview == ReviewInit /\ [][ReviewNext]_vars

ApprovedStems == {approved[i].stem : i \in 1..Len(approved)}

\* Every image process_directory handed to the annotator is approved: the
\* images it completed and the image the exception came from
OnlyApprovedProcessed ==
    /\ \A i \in 1..Len(canvas) : i \in ApprovedStems
    /\ status = "raised" => (processed + 1) \in ApprovedStems

OnlyApprovedRegistered ==
    \A f \in 1..Len(figures) : figures[f].source_image \in ApprovedStems

\* The approved map holds entries of annotations_map, unchanged
ApprovedFromInput ==
    \A i \in 1..Len(approved) :
        \E j \in 1..Len(review_call.annotations_map) :
            approved[i] = review_call.annotations_map[j]

\* After "a": no entry after the last prompted one was left out when its
\* source file exists, and nothing was asked after the "a"
ApproveAllHonoured ==
    approve_all =>
        /\ prompted # <<>> /\ prompted[Len(prompted)] \in ApprovedStems
        /\ Answer(review_call.stdin[lines_read]) = "all"
        /\ \A j \in 1..reviewed :
              (/\ \E k \in 1..(j - 1) :
                     review_call.annotations_map[k].stem = prompted[Len(prompted)]
               /\ SourceFound(review_call.input_dir, review_call.annotations_map[j].stem))
              => review_call.annotations_map[j].stem \in ApprovedStems

\* C29: in guided review mode only approved images are processed: an image
\* that was skipped with "n", or that comes after "q" or the end of stdin, is
\* not handed to the annotator and not registered as a figure; after "a"
\* every later image whose source file exists is approved without a prompt;
\* and the approved map only holds entries of the input map, unchanged.
C29_OnlyApprovedImagesProcessed ==
    /\ OnlyApprovedProcessed
    /\ OnlyApprovedRegistered
    /\ ApprovedFromInput
    /\ ApproveAllHonoured

(***************************************************************************)
(* ReportGenerator.compare_colors (scripts/report_generator.py) next to    *)
(* the comparison of ColorConsistencyValidator.validate                    *)
(***************************************************************************)
\* The dict equivalents of ReportGenerator._colors_match
REPORT_EQUIVALENTS ==
    [c \in PaletteNames \ {"purple", "orange"} |->
        CASE c \in {"red", "critical"} -> {"red", "critical"}
          [] c \in {"blue", "info"} -> {"blue", "info"}
          [] c \in {"gold", "warning", "yellow"} -> {"gold", "warning", "yellow"}
          [] c \in {"green", "success"} -> {"green", "success"}
          [] OTHER -> {"teal", "primary"}]

\* ReportGenerator._colors_match(expected, actual)
report_colors_match(expected_color, actual_color) ==
    \/ Lower(expected_color) = Lower(actual_color)
    \/ Lower(actual_color) \in (IF Lower(expected_color) \in DOMAIN REPORT_EQUIVALENTS
                                THEN REPORT_EQUIVALENTS[Lower(expected_color)]
                                ELSE {Lower(expected_color)})

\* The item compare_colors builds for one expected annotation
ReportItem(t, actual_color, actual_hex) ==
    [figure |-> t.figure, annotation |-> t.annotation, expected_color |-> t.expected,
     expected_hex |-> IF t.expected \in PaletteNames THEN PaletteHex(t.expected)
                      ELSE "#888888",
     actual_color |-> actual_color, actual_hex |-> actual_hex]

\* The body of the loops of compare_colors for one expected annotation;
\* entry is actual_data
ReportStep(acc, t, entry) ==
    LET item == IF entry # None
                THEN ReportItem(t, entry[1].color_name, entry[1].hex)
                ELSE ReportItem(t, "not found", "#888888")
    IN  IF report_colors_match(t.expected, item.actual_color)
        THEN [acc EXCEPT !.matches = Append(@, item)]
        ELSE [acc EXCEPT !.mismatches = Append(@, item)]

RECURSIVE ReportCompare(_, _, _)
ReportCompare(cmap, triples, k) ==
    IF k = 0 THEN [matches |-> <<>>, mismatches |-> <<>>]
    ELSE ReportStep(ReportCompare(cmap, triples, k - 1), triples[k],
                    ActualEntry(cmap, triples[k].figure, triples[k].annotation))

\* compare_colors() on self.expected_colors and self.color_map: self.matches
\* and self.mismatches afterwards
compare_colors(expected_colors, cmap) ==
    ReportCompare(cmap, ExpectedTriples(expected_colors, Len(expected_colors)),
                  Len(ExpectedTriples(expected_colors, Len(expected_colors))))

\* ColorConsistencyValidator.validate from the loaded color_map on, with
\* the expected colors that _parse_expected_colors returned
validate_colors(expected_colors, cmap) ==
    IF DOMAIN cmap = {}
    THEN Validated(TRUE, <<>>, <<Skipped("no color_map")>>, <<>>, <<>>, None)
    ELSE CompareExpected(cmap, expected_colors)

\* Expected colors of one figure: annotation number -> color name
MaxExpectedFigures == 2
ExpectedColorNames == {"red", "yellow", "purple"}

ExpectedOfFigure ==
    {m \in SeqsUpTo({<<n, c>> : n \in 1..2, c \in ExpectedColorNames}, 2) :
        /\ m # <<>>
        /\ \A i, j \in 1..Len(m) : i # j => m[i][1] # m[j][1]}

\* figure -> annotation number -> color name, as items in insertion order
ExpectedColorMaps ==
    {e \in SeqsUpTo({<<f, m>> : f \in 1..2, m \in ExpectedOfFigure}, MaxExpectedFigures) :
        \A i, j \in 1..Len(e) : i # j => e[i][1] # e[j][1]}

\* The color_map of the registry files that have one
LoadedColorMaps ==
    {f[1].color_map[1] : f \in {g \in RegistryFiles : g # None /\ g[1].color_map # None}}

ReportCalls ==
    {[expected_colors |-> e, color_map |-> m] :
        e \in ExpectedColorMaps, m \in LoadedColorMaps}

ReportInit ==
    /\ report_call \in ReportCalls /\ report_result = None
    /\ GeometryIdle /\ ReviewIdle
    /\ assign_call = None /\ annotations_file = <<>> /\ preprocess = None
    /\ expected = "" /\ actual = "" /\ matched = None /\ ConsistencyIdle
    /\ ValidatorIdle /\ RegistryNew /\ ManagerNew /\ DirectoryIdle /\ ParserNew

\* compare_colors of a ReportGenerator and the comparison of a
\* ColorConsistencyValidator, on the same expected colors and color_map
CompareColors ==
    /\ report_result = None
    /\ report_result' =
          Some([report |-> compare_colors(report_call.expected_colors,
                                          report_call.color_map),
                validator |-> validate_colors(report_call.expected_colors,
                                              report_call.color_map)])
    /\ UNCHANGED <<report_call, geometryVars, reviewVars, assign_call, annotations_file,
                   preprocess, expected, actual, matched, consistencyVars, validatorVars,
                   registryVars, managerVars, directoryVars, parserVars>>

ReportNext == CompareColors

SpecReport == ReportInit /\ [][ReportNext]_vars

\* The list holds an item for the (figure, annotation) pair of t
ListsPair(list, t) ==
    \E i \in 1..Len(list) : list[i].figure = t.figure /\ list[i].annotation = t.annotation

\* C30: for the same expected colors and the same color_map, compare_colors
\* and ColorConsistencyValidator.validate put every (figure, annotation)
\* pair in the same class: it is a mismatch in one exactly when it is a
\* mismatch in the other, and a match in one exactly when it is a match in
\* the other, also when the annotation is absent from the registry.
C30_ComparatorsAgree ==
    report_result # None =>
        \A k \in 1..Len(ExpectedTriples(report_call.expected_colors,
                                        Len(report_call.expected_colors))) :
            LET t == ExpectedTriples(report_call.expected_colors,
                                     Len(report_call.expected_colors))[k]
            IN  /\ ListsPair(report_result[1].report.mismatches, t)
                       <=> ListsPair(report_result[1].validator.mismatches, t)
                /\ ListsPair(report_result[1].report.matches, t)
                       <=> ListsPair(report_result[1].validator.matches, t)

====
